---------------------------- MODULE Spec2Model ----------------------------
(***************************************************************************)
(* A model of coalition-p2p: the routing table (route_table.go), the       *)
(* signed request/response protocol (rpc.go, host.go) and the host's       *)
(* background services.                                                     *)
(*                                                                         *)
(* Peer keys are 160-bit SHA-1 digests in the program; here a key is a     *)
(* natural number below 2^KeyBits, read as the big-endian integer of the   *)
(* key's bytes.  BadLenKey stands for a byte slice whose length differs    *)
(* from the locus key's.                                                   *)
(***************************************************************************)
EXTENDS Integers, Sequences, FiniteSets, TLC

VARIABLES
    table,      \* Spec, SpecConc: the RouteTable under test
    now,        \* time.Now().Unix()
    lastCall,   \* Spec: the last RouteTable call, its arguments and results
    task,       \* SpecConc: the goroutines working on the table;
                \* SpecLookup: the call of FindClosestNodes
    tables,     \* SpecNet, SpecLookup: each host's RouteTable
    conns       \* SpecNet: the TCP connections opened so far, oldest first

vars == <<table, now, lastCall, task, tables, conns>>

----------------------------------------------------------------------------
(* Bounds *)

KeyBits == 3
MaxPeersBound == 2
MaxTime == 2

Keys == 0 .. (2^KeyBits - 1)
BadLenKey == -1

----------------------------------------------------------------------------
(* big.Int and byte-slice arithmetic *)

RECURSIVE XorNat(_, _)
XorNat(a, b) ==
    IF a = 0 THEN b
    ELSE IF b = 0 THEN a
    ELSE (((a % 2) + (b % 2)) % 2) + (2 * XorNat(a \div 2, b \div 2))

RECURSIVE AndNat(_, _)
AndNat(a, b) ==
    IF a = 0 \/ b = 0 THEN 0
    ELSE ((a % 2) * (b % 2)) + (2 * AndNat(a \div 2, b \div 2))

\* XORBytes on two keys of equal length; bytes.Compare on the results is the
\* comparison of the numbers.
XORBytes(sliceA, sliceB) == XorNat(sliceA, sliceB)

\* len(key) == len(table.locusKey)
SameLen(keyA, keyB) == (keyA = BadLenKey) = (keyB = BadLenKey)

----------------------------------------------------------------------------
(* Peer and RouteTable *)

NewPeer(key, ipAddress, port, t) ==
    [key |-> key, ipAddress |-> ipAddress, port |-> port, lastSeen |-> t]

NewRouteTable(locusKey, maxPeers, latencyPeriod) ==
    [locusKey |-> locusKey, maxPeers |-> maxPeers,
     latencyPeriod |-> latencyPeriod, peers |-> <<>>, kbucket |-> <<>>]

\* The map's value for a bucket key, the empty list when the entry is absent
\* (Go's zero value for a missing map key).
Bucket(kbucket, bucketKey) ==
    IF bucketKey \in DOMAIN kbucket THEN kbucket[bucketKey] ELSE <<>>

\* kbucket[bucketKey] = entries
SetBucket(kbucket, bucketKey, entries) ==
    [b \in (DOMAIN kbucket) \cup {bucketKey} |->
        IF b = bucketKey THEN entries ELSE kbucket[b]]

\* A variant of the loop that keeps the lowest power of two of the distance.
RECURSIVE KBucketScanLowest(_, _)
KBucketScanLowest(distanceFromLocus, i) ==
    IF i < 0 THEN 0
    ELSE LET lower == KBucketScanLowest(distanceFromLocus, i - 1)
         IN  IF lower # 0 THEN lower
             ELSE IF AndNat(distanceFromLocus, 2^i) = 2^i THEN 2^i ELSE 0

\* The loop of calculateKBucketKey: from the top bit down, the first power of
\* two contained in the distance; hex "00" (here 0) when there is none.
RECURSIVE KBucketScan(_, _)
KBucketScan(distanceFromLocus, i) ==
    IF i < 0 THEN 0
    ELSE IF AndNat(distanceFromLocus, 2^i) = 2^i THEN 2^i
    ELSE KBucketScan(distanceFromLocus, i - 1)

\* The bucket key is the hex string of 2^i; the model keeps the number 2^i,
\* which the hex string determines and is determined by.
calculateKBucketKey(t, key) ==
    IF ~SameLen(key, t.locusKey)
    THEN [err |-> TRUE, key |-> 0]
    ELSE [err |-> FALSE,
          key |-> KBucketScan(XorNat(t.locusKey, key), KeyBits - 1)]

\* A variant of the lookup that never finds the key.
IndexOfKeyNotFound(peers, key) == 0

\* The index of the first peer with the key, 0 when there is none (the
\* code's -1).
IndexOfKey(peers, key) ==
    IF \E i \in 1..Len(peers) : peers[i].key = key
    THEN CHOOSE i \in 1..Len(peers) :
            /\ peers[i].key = key
            /\ \A j \in 1..(i - 1) : peers[j].key # key
    ELSE 0

IndexInBucket(entries, key) ==
    IF \E i \in 1..Len(entries) : entries[i] = key
    THEN CHOOSE i \in 1..Len(entries) :
            /\ entries[i] = key
            /\ \A j \in 1..(i - 1) : entries[j] # key
    ELSE 0

\* A variant of the splice that drops what follows the element as well.
SpliceCut(seq, i) == SubSeq(seq, 1, i - 1)

\* seq without its i-th element
Splice(seq, i) == SubSeq(seq, 1, i - 1) \o SubSeq(seq, i + 1, Len(seq))

----------------------------------------------------------------------------
(* MergeSortPeers and the two orders built on it *)

\* sortFunc(peerA, peerB): f names the comparison and carries its search key.
SortFunc(f, peerA, peerB) ==
    IF f.kind = "lastSeen"
    THEN peerB.lastSeen - peerA.lastSeen
    ELSE LET distanceA == XORBytes(peerA.key, f.searchKey)
             distanceB == XORBytes(peerB.key, f.searchKey)
         IN  IF distanceB < distanceA THEN -1
             ELSE IF distanceB = distanceA THEN 0 ELSE 1

RECURSIVE MergeLoop(_, _, _)
MergeLoop(sortedA, sortedB, f) ==
    IF sortedA = <<>> THEN sortedB
    ELSE IF sortedB = <<>> THEN sortedA
    ELSE IF SortFunc(f, Head(sortedA), Head(sortedB)) >= 0
         THEN <<Head(sortedA)>> \o MergeLoop(Tail(sortedA), sortedB, f)
         ELSE <<Head(sortedB)>> \o MergeLoop(sortedA, Tail(sortedB), f)

CeilHalf(n) == (n + 1) \div 2

RECURSIVE MergeSortPeers(_, _, _)
MergeSortPeers(bucketA, bucketB, f) ==
    IF Len(bucketA) = 0 /\ Len(bucketB) = 0 THEN <<>>
    ELSE IF Len(bucketA) = 1 /\ Len(bucketB) = 0 THEN bucketA
    ELSE IF Len(bucketB) = 1 /\ Len(bucketA) = 0 THEN bucketB
    ELSE LET midPointA == CeilHalf(Len(bucketA))
             sortedA == MergeSortPeers(SubSeq(bucketA, 1, midPointA),
                                       SubSeq(bucketA, midPointA + 1, Len(bucketA)), f)
             midPointB == CeilHalf(Len(bucketB))
             sortedB == MergeSortPeers(SubSeq(bucketB, 1, midPointB),
                                       SubSeq(bucketB, midPointB + 1, Len(bucketB)), f)
         IN  MergeLoop(sortedA, sortedB, f)

SortPeersByLastSeen(t) == MergeSortPeers(t.peers, <<>>, [kind |-> "lastSeen"])

\* A variant of the proximity order that returns the peers as stored.
SortPeersAsStored(peers, searchKey) == peers

SortPeersByClosest(peers, searchKey) ==
    MergeSortPeers(peers, <<>>, [kind |-> "closest", searchKey |-> searchKey])

----------------------------------------------------------------------------
(* RouteTable.Remove *)

\* The result of table.Remove(key): the table afterwards and whether an error
\* was returned.
Remove(t, key) ==
    LET peerIndex == IndexOfKey(t.peers, key)
    IN  IF peerIndex = 0 THEN [table |-> t, err |-> TRUE]
        ELSE
        LET peer == t.peers[peerIndex]
            bk == calculateKBucketKey(t, peer.key)
        IN  IF bk.err THEN [table |-> t, err |-> TRUE]
            ELSE IF bk.key \notin DOMAIN t.kbucket THEN [table |-> t, err |-> TRUE]
            ELSE
            LET peerKeyIndex == IndexInBucket(t.kbucket[bk.key], peer.key)
            IN  IF peerKeyIndex = 0 THEN [table |-> t, err |-> TRUE]
                ELSE [table |->
                        [t EXCEPT
                            !.kbucket = SetBucket(t.kbucket, bk.key,
                                            Splice(t.kbucket[bk.key], peerKeyIndex)),
                            !.peers = Splice(t.peers, peerIndex)],
                      err |-> FALSE]

----------------------------------------------------------------------------
(* RouteTable.Insert *)

\* table.peers = append(table.peers, peer); kbucket[bucketKey] = append(..., peer.key)
AppendPeer(t, bucketKey, peer) ==
    [t EXCEPT !.peers = Append(t.peers, peer),
              !.kbucket = SetBucket(t.kbucket, bucketKey,
                                    Append(Bucket(t.kbucket, bucketKey), peer.key))]

\* The buckets the range loop over the map may stop at: Go's map order is not
\* fixed, so any entry with more than one key can be the first one found.
BloatedBuckets(t) == {b \in DOMAIN t.kbucket : Len(t.kbucket[b]) > 1}

\* A variant of the last-seen replacement that keeps the sorted slice as the
\* table's peers.
InsertReplaceSortingInPlace(t1, bucketKey, peer, clock) ==
    LET peers == SortPeersByLastSeen(t1)
        leastSeenPeer == peers[Len(peers)]
        t2 == [t1 EXCEPT !.peers = peers]
    IN  IF clock - leastSeenPeer.lastSeen > t1.latencyPeriod
        THEN LET r == Remove(t2, leastSeenPeer.key)
             IN  IF r.err THEN [table |-> r.table, ok |-> FALSE, err |-> TRUE]
                 ELSE [table |-> AppendPeer(r.table, bucketKey, peer),
                       ok |-> TRUE, err |-> FALSE]
        ELSE [table |-> t2, ok |-> FALSE, err |-> FALSE]

\* The last-seen replacement at the end of Insert, t1 being the table with the
\* new key's bucket entry present.
InsertReplace(t1, bucketKey, peer, clock) ==
    LET peers == SortPeersByLastSeen(t1)
        leastSeenPeer == peers[Len(peers)]
    IN  IF clock - leastSeenPeer.lastSeen > t1.latencyPeriod
        THEN LET r == Remove(t1, leastSeenPeer.key)
             IN  IF r.err THEN [table |-> r.table, ok |-> FALSE, err |-> TRUE]
                 ELSE [table |-> AppendPeer(r.table, bucketKey, peer),
                       ok |-> TRUE, err |-> FALSE]
        ELSE [table |-> t1, ok |-> FALSE, err |-> FALSE]

\* A variant of the update that leaves the address and the port as stored.
InsertUpdateTimeOnly(t, peerIndex, ipAddress, port, clock) ==
    [t EXCEPT !.peers[peerIndex] = [@ EXCEPT !.lastSeen = clock]]

\* The found-in-table branch: the record is updated in place.
InsertUpdate(t, peerIndex, ipAddress, port, clock) ==
    [t EXCEPT !.peers[peerIndex] =
        [@ EXCEPT !.ipAddress = ipAddress, !.port = port, !.lastSeen = clock]]

\* A variant without the check for the host's own key.
IsLocusNever(t, key) == FALSE

\* bytes.Equal(key, table.locusKey)
IsLocus(t, key) == key = t.locusKey

\* A variant of the capacity test that is off by one.
HasRoomOffByOne(t) == Len(t.peers) <= t.maxPeers

\* len(table.peers) < int(table.maxPeers)
HasRoom(t) == Len(t.peers) < t.maxPeers

\* if _, exists := table.kbucket[bucketKey]; !exists { ... = make([][]byte, 0) }
EnsureBucket(t, bucketKey) ==
    [t EXCEPT !.kbucket = SetBucket(t.kbucket, bucketKey, Bucket(t.kbucket, bucketKey))]

\* A variant of the choice in a bloated entry that takes its first key.
EntryPeerKeyFirst(entries) == entries[1]

\* entryPeerKey := entries[len(entries)-1]
EntryPeerKey(entries) == entries[Len(entries)]

\* A variant of Insert on a full table without the bucket-bloat pruning.
InsertWhenFullNoPruning(t1, bucketKey, peer, clock) ==
    {InsertReplace(t1, bucketKey, peer, clock)}

\* Insert once the table is found full: the bucket-bloat pruning, then the
\* last-seen replacement.
InsertWhenFull(t1, bucketKey, peer, clock) ==
    IF Len(Bucket(t1.kbucket, bucketKey)) = 0 /\ BloatedBuckets(t1) # {}
    THEN {LET entries == t1.kbucket[b]
              r == Remove(t1, EntryPeerKey(entries))
          IN  IF r.err
              THEN [table |-> r.table, ok |-> FALSE, err |-> TRUE]
              ELSE [table |-> AppendPeer(r.table, bucketKey, peer),
                    ok |-> TRUE, err |-> FALSE]
          : b \in BloatedBuckets(t1)}
    ELSE {InsertReplace(t1, bucketKey, peer, clock)}

\* Insert of a key that was not found in the table.
InsertNew(t, peer, clock) ==
    LET bk == calculateKBucketKey(t, peer.key)
    IN  IF bk.err THEN {[table |-> t, ok |-> FALSE, err |-> TRUE]}
        ELSE LET t1 == EnsureBucket(t, bk.key)
             IN  IF HasRoom(t1)
                 THEN {[table |-> AppendPeer(t1, bk.key, peer),
                        ok |-> TRUE, err |-> FALSE]}
                 ELSE InsertWhenFull(t1, bk.key, peer, clock)

\* Every result table.Insert(key, ipAddress, port) can return at time clock:
\* the table afterwards, the boolean and whether an error was returned.
Insert(t, key, ipAddress, port, clock) ==
    IF IsLocus(t, key)
    THEN {[table |-> t, ok |-> FALSE, err |-> FALSE]}
    ELSE LET peerIndex == IndexOfKey(t.peers, key)
         IN  IF peerIndex # 0
             THEN {[table |-> InsertUpdate(t, peerIndex, ipAddress, port, clock),
                    ok |-> TRUE, err |-> FALSE]}
             ELSE InsertNew(t, NewPeer(key, ipAddress, port, clock), clock)

----------------------------------------------------------------------------
(* Spec: one caller working on one RouteTable.  The caller makes a call,    *)
(* which runs to its end in one step and leaves its arguments and results   *)
(* in lastCall; the caller then takes the results and is free to call again. *)
(* lastCall.removed is history: the keys the call took out of the peers.    *)

LocusKeys == {5}
LatencyPeriods == {0, 1}
InputKeys == {5, 4, 7, 6, 1, BadLenKey}
Endpoints == {<<"10.0.0.1", 3000>>, <<"10.0.0.2", 3001>>}

NoCall == [op |-> "none", key |-> 0, ipAddress |-> "", port |-> 0,
           ok |-> FALSE, err |-> FALSE, removed |-> {}]
NoTask == <<>>
NoTables == <<>>

TableInit ==
    /\ table \in {NewRouteTable(locusKey, maxPeers, latencyPeriod) :
                    locusKey \in LocusKeys, maxPeers \in 1..MaxPeersBound,
                    latencyPeriod \in LatencyPeriods}
    /\ now = 0
    /\ lastCall = NoCall
    /\ task = NoTask
    /\ tables = NoTables
    /\ conns = <<>>

\* table.Insert(key, ipAddress, port)
CallInsert(key, ipAddress, port) ==
    /\ lastCall = NoCall
    /\ \E r \in Insert(table, key, ipAddress, port, now) :
        /\ table' = r.table
        /\ lastCall' = [op |-> "Insert", key |-> key, ipAddress |-> ipAddress,
                        port |-> port, ok |-> r.ok, err |-> r.err,
                        removed |-> {table.peers[i].key : i \in DOMAIN table.peers}
                                      \ {r.table.peers[i].key : i \in DOMAIN r.table.peers}]
    /\ UNCHANGED <<now, task, tables, conns>>

\* table.Remove(key)
CallRemove(key) ==
    /\ lastCall = NoCall
    /\ LET r == Remove(table, key)
       IN  /\ table' = r.table
           /\ lastCall' = [op |-> "Remove", key |-> key, ipAddress |-> "",
                           port |-> 0, ok |-> ~r.err, err |-> r.err,
                           removed |-> {table.peers[i].key : i \in DOMAIN table.peers}
                                         \ {r.table.peers[i].key : i \in DOMAIN r.table.peers}]
    /\ UNCHANGED <<now, task, tables, conns>>

\* The caller has the results of its call.
Return ==
    /\ lastCall # NoCall
    /\ lastCall' = NoCall
    /\ UNCHANGED <<table, now, task, tables, conns>>

\* A second of wall-clock time passes.
Tick ==
    /\ lastCall = NoCall
    /\ now < MaxTime
    /\ now' = now + 1
    /\ UNCHANGED <<table, lastCall, task, tables, conns>>

TableNext ==
    \/ \E key \in InputKeys, ep \in Endpoints : CallInsert(key, ep[1], ep[2])
    \/ \E key \in InputKeys : CallRemove(key)
    \/ Return
    \/ Tick

Spec == TableInit /\ [][TableNext]_vars

----------------------------------------------------------------------------
(* SpecConc: goroutines working on one RouteTable at the same time.  The    *)
(* table has no lock: Host.Listen starts a goroutine per accepted           *)
(* connection and each one calls table.Insert, so the statements of two     *)
(* Insert calls interleave.  A step here is a block of statements of one    *)
(* call: the lookup (and the update in place when the key is found), the    *)
(* capacity test (and everything Insert does to a full table), the append.  *)

NumGoroutines == 2
Goroutines == 1..NumGoroutines
ConcKeys == {5, 4, 7, 6}
ConcEndpoints == {<<"10.0.0.1", 3000>>}

NoPeer == NewPeer(0, "", 0, 0)
IdleTask == [pc |-> "idle", peer |-> NoPeer, bucketKey |-> 0]

ConcInit ==
    /\ table \in {NewRouteTable(locusKey, maxPeers, latencyPeriod) :
                    locusKey \in LocusKeys, maxPeers \in 1..MaxPeersBound,
                    latencyPeriod \in LatencyPeriods}
    /\ now = 0
    /\ lastCall = NoCall
    /\ task = [g \in Goroutines |-> IdleTask]
    /\ tables = NoTables
    /\ conns = <<>>

\* route_table.go 184-207: the locus test, the search for the key, the update
\* in place of a key that is found, NewPeer for one that is not.
InsertLookup(g, key, ipAddress, port) ==
    /\ task[g].pc = "idle"
    /\ IF IsLocus(table, key)
       THEN UNCHANGED <<table, task>>
       ELSE LET peerIndex == IndexOfKey(table.peers, key)
            IN  IF peerIndex # 0
                THEN /\ table' = InsertUpdate(table, peerIndex, ipAddress, port, now)
                     /\ UNCHANGED task
                ELSE /\ task' = [task EXCEPT ![g] =
                            [pc |-> "new", bucketKey |-> 0,
                             peer |-> NewPeer(key, ipAddress, port, now)]]
                     /\ UNCHANGED table
    /\ UNCHANGED <<now, lastCall, tables, conns>>

\* route_table.go 208-217 and 223-262: the bucket key, the bucket entry, the
\* capacity test and, for a full table, the rest of Insert.
InsertCapacity(g) ==
    /\ task[g].pc = "new"
    /\ LET peer == task[g].peer
           bk == calculateKBucketKey(table, peer.key)
       IN  IF bk.err
           THEN /\ task' = [task EXCEPT ![g] = IdleTask]
                /\ UNCHANGED table
           ELSE LET t1 == EnsureBucket(table, bk.key)
                IN  IF HasRoom(t1)
                    THEN /\ table' = t1
                         /\ task' = [task EXCEPT ![g].pc = "append",
                                                 ![g].bucketKey = bk.key]
                    ELSE /\ \E r \in InsertWhenFull(t1, bk.key, peer, now) :
                                table' = r.table
                         /\ task' = [task EXCEPT ![g] = IdleTask]
    /\ UNCHANGED <<now, lastCall, tables, conns>>

\* route_table.go 218-220: the two appends.
InsertAppend(g) ==
    /\ task[g].pc = "append"
    /\ table' = AppendPeer(table, task[g].bucketKey, task[g].peer)
    /\ task' = [task EXCEPT ![g] = IdleTask]
    /\ UNCHANGED <<now, lastCall, tables, conns>>

ConcTick ==
    /\ now < MaxTime
    /\ now' = now + 1
    /\ UNCHANGED <<table, lastCall, task, tables, conns>>

ConcNext ==
    \/ \E g \in Goroutines, key \in ConcKeys, ep \in ConcEndpoints :
          InsertLookup(g, key, ep[1], ep[2])
    \/ \E g \in Goroutines : InsertCapacity(g)
    \/ \E g \in Goroutines : InsertAppend(g)
    \/ ConcTick

SpecConc == ConcInit /\ [][ConcNext]_vars

----------------------------------------------------------------------------
(* Identities, signatures and payloads *)

\* Ed25519 key pairs are named by their owner: the hosts A and B, and M, a
\* party that is not a Host of this program (a hand-written client such as
\* the one of rpc_test.go, and a server that answers as it likes).  C and D
\* are two more hosts, which take part in the lookups of SpecLookup.
Hosts == {"A", "B"}
Identities == {"A", "B", "M", "C", "D"}

\* sha1.Sum(publicKey): the peer key of a public key.
PeerKeyOf(pub) ==
    CASE pub = "A" -> 5 [] pub = "B" -> 4 [] pub = "M" -> 7
      [] pub = "C" -> 1 [] pub = "D" -> 2

IPOf(id) ==
    CASE id = "A" -> "10.0.0.1" [] id = "B" -> "10.0.0.2" [] id = "M" -> "10.0.0.3"
      [] id = "C" -> "10.0.0.4" [] id = "D" -> "10.0.0.5"
PortOf(id) ==
    CASE id = "A" -> 3000 [] id = "B" -> 3001 [] id = "M" -> 3002
      [] id = "C" -> 3003 [] id = "D" -> 3004

\* A port of M's machine on which nothing listens.
ClosedPort == PortOf("M") + 1

\* The endpoints with a bound listener: NewHost binds one for each host, and
\* M runs a server of its own.
ListenerOpen(ip, port) == \E id \in Identities : ip = IPOf(id) /\ port = PortOf(id)
ListenerAt(ip, port) == CHOOSE id \in Identities : ip = IPOf(id) /\ port = PortOf(id)

\* A parsed node address.
Address(key, ip, port) == [key |-> key, ip |-> ip, port |-> port]
AddressOf(id) == Address(PeerKeyOf(id), IPOf(id), PortOf(id))

\* JSON values of the data field: null, a string, the hex string of a key, a
\* list of node addresses.
NullData == [kind |-> "null", str |-> "", key |-> 0, list |-> <<>>]
StrData(str) == [kind |-> "string", str |-> str, key |-> 0, list |-> <<>>]
HexData(key) == [kind |-> "hex", str |-> "", key |-> key, list |-> <<>>]
ListData(list) == [kind |-> "list", str |-> "", key |-> 0, list |-> list]

\* Message bodies: json.Marshal of an RPCRequest, of an RPCResponse, and bytes
\* that are no JSON.
RequestBody(version, method, data) ==
    [json |-> "request", version |-> version, method |-> method,
     success |-> FALSE, data |-> data]
ResponseBody(success, data) ==
    [json |-> "response", version |-> 0, method |-> "",
     success |-> success, data |-> data]
GarbageBody ==
    [json |-> "garbage", version |-> 0, method |-> "",
     success |-> FALSE, data |-> NullData]

\* sha256.Sum256(body): a digest is kept as the body it was taken of, two
\* bodies having the same digest only when they are equal.
Digest(body) == [sha256 |-> body]

\* ed25519.Sign(key, digest) and ed25519.Verify(publicKey, digest, signature):
\* a signature names the key pair that made it and the digest it was made for.
Ed25519Sign(id, digest) == [signer |-> id, digest |-> digest]

\* A variant of the verification that accepts every signature.
VerifyAnything(publicKey, digest, signature) == TRUE

Verify(publicKey, digest, signature) ==
    signature.signer = publicKey /\ signature.digest = digest

\* A payload as read off a connection: a frame that cannot be read (too long,
\* cut short), a payload too short to hold the header and one byte, or the
\* listening port (requests only), the public key, the signature and the body.
BadFrame ==
    [frame |-> "bad", short |-> FALSE, port |-> 0, pub |-> "",
     sig |-> Ed25519Sign("", Digest(GarbageBody)), body |-> GarbageBody]
ShortPayload ==
    [frame |-> "ok", short |-> TRUE, port |-> 0, pub |-> "",
     sig |-> Ed25519Sign("", Digest(GarbageBody)), body |-> GarbageBody]
FullPayload(port, pub, sig, body) ==
    [frame |-> "ok", short |-> FALSE, port |-> port, pub |-> pub,
     sig |-> sig, body |-> body]
NoPayload ==
    [frame |-> "none", short |-> FALSE, port |-> 0, pub |-> "",
     sig |-> Ed25519Sign("", Digest(GarbageBody)), body |-> GarbageBody]

\* host.Sign(digest) followed by the body: what a host sends.
SignedBy(id, port, body) ==
    FullPayload(port, id, Ed25519Sign(id, Digest(body)), body)

\* A variant of the recovery that trusts the public key as sent.
RecoverPeerKeyUnchecked(pub, sig, hash) == [err |-> FALSE, key |-> PeerKeyOf(pub)]

RecoverPeerKeyFromPeerSignature(pub, sig, hash) ==
    IF ~Verify(pub, hash, sig)
    THEN [err |-> TRUE, key |-> 0]
    ELSE [err |-> FALSE, key |-> PeerKeyOf(pub)]

\* Error texts
ErrFrame == "request payload exceeds buffer size"
ErrTimeout == "i/o timeout"
ErrRefused == "connection refused"
ErrJSON == "invalid character"
ErrHex == "encoding/hex: invalid byte"
ErrKeyLen == "key length miss-match"
ErrTable == "route table error"

----------------------------------------------------------------------------
(* The RPC handlers and HandleRPCConnection *)

\* The methods NewHost registers.
RPCHandlers == {"ping", "find_node"}

\* A variant of the ping handler with another answer.
PingHandlerEcho == [err |-> FALSE, text |-> "", data |-> StrData("ping")]

PingHandler == [err |-> FALSE, text |-> "", data |-> StrData("pong")]

\* A variant of the list of addresses that leaves every peer out.
PeerAddressesNone(peers) == <<>>

RECURSIVE PeerAddresses(_)
PeerAddresses(peers) ==
    IF peers = <<>> THEN <<>>
    ELSE <<Address(Head(peers).key, Head(peers).ipAddress, Head(peers).port)>>
            \o PeerAddresses(Tail(peers))

\* table.SortPeersByProximity(key)
SortPeersByProximity(t, key) ==
    IF ~SameLen(key, t.locusKey)
    THEN [err |-> TRUE, peers |-> <<>>]
    ELSE [err |-> FALSE, peers |-> SortPeersByClosest(t.peers, key)]

FindNodeHandler(t, req) ==
    IF req.data.kind \notin {"string", "hex"}
    THEN [err |-> TRUE, text |-> "node key not found in request body", data |-> NullData]
    ELSE IF req.data.kind = "string"
    THEN [err |-> TRUE, text |-> ErrHex, data |-> NullData]
    ELSE LET sorted == SortPeersByProximity(t, req.data.key)
         IN  IF sorted.err
             THEN [err |-> TRUE, text |-> ErrKeyLen, data |-> NullData]
             ELSE [err |-> FALSE, text |-> "",
                   data |-> ListData(PeerAddresses(sorted.peers))]

\* A variant of the dispatch that reports success whatever the request.
DispatchAlwaysOk(t, body) == ResponseBody(TRUE, NullData)

\* rpc.go 250-274: the request is decoded and its handler runs on the table
\* as the insert left it; the result is the response body.
Dispatch(t, body) ==
    IF body.json = "garbage"
    THEN ResponseBody(FALSE, StrData(ErrJSON))
    ELSE IF body.method \notin RPCHandlers
    THEN ResponseBody(FALSE, StrData("Unknown RPC method"))
    ELSE LET res == IF body.method = "ping" THEN PingHandler
                    ELSE FindNodeHandler(t, body)
         IN  IF res.err THEN ResponseBody(FALSE, StrData(res.text))
             ELSE ResponseBody(TRUE, res.data)

\* A variant of the connection test that never gets through.
DialBackNever(ip, port) == FALSE

\* A variant of the dial-back that always connects.
DialBackAlways(ip, port) == TRUE

\* rpc.go 234: net.Dial to the address the peer says it listens on.
DialBack(ip, port) == ListenerOpen(ip, port)

\* Every run of HandleRPCConnection on host h for a payload that came from
\* srcIP: the table afterwards and the body of the response.
HandleRPC(t, srcIP, payload, clock) ==
    IF payload.frame = "bad"
    THEN {[table |-> t, body |-> ResponseBody(FALSE, StrData(ErrFrame))]}
    ELSE IF payload.short
    THEN {[table |-> t, body |-> ResponseBody(FALSE, StrData("Incomplete request body"))]}
    ELSE
    LET rec == RecoverPeerKeyFromPeerSignature(payload.pub, payload.sig,
                                               Digest(payload.body))
    IN  IF rec.err
        THEN {[table |-> t, body |-> ResponseBody(FALSE, StrData("invalid peer signature"))]}
        ELSE
        LET inserted == IF DialBack(srcIP, payload.port)
                        THEN Insert(t, rec.key, srcIP, payload.port, clock)
                        ELSE {[table |-> t, ok |-> FALSE, err |-> FALSE]}
        IN  {IF r.err
             THEN [table |-> r.table,
                   body |-> ResponseBody(FALSE, StrData(ErrTable))]
             ELSE [table |-> r.table, body |-> Dispatch(r.table, payload.body)]
             : r \in inserted}

----------------------------------------------------------------------------
(* Host.SendMessage *)

OkResult(data) == [status |-> "ok", err |-> "", data |-> data]
ErrResult(text) == [status |-> "error", err |-> text, data |-> NullData]
PanicResult == [status |-> "panic", err |-> "", data |-> NullData]
NoResult == [status |-> "none", err |-> "", data |-> NullData]

\* A variant of the identity test that lets every key through.
KeyMatchesAnything(peerKey, remotePeerKey) == TRUE

\* bytes.Equal(peerKey, remotePeerKey)
KeyMatches(peerKey, remotePeerKey) == peerKey = remotePeerKey

\* host.go 450-457: the response is decoded.  fmt.Errorf(response.Data.(string))
\* panics when the data of a failed response is no string.
DecodeResponse(body) ==
    IF body.json = "garbage" THEN ErrResult(ErrJSON)
    ELSE IF ~body.success
    THEN IF body.data.kind = "string" THEN ErrResult(body.data.str) ELSE PanicResult
    ELSE OkResult(body.data)

\* host.go 419-457: every way SendMessage can end once the response payload
\* resp has arrived: the caller's table afterwards and what the caller gets.
SendMessageRead(t, addr, resp, clock) ==
    IF resp.frame = "bad" THEN {[table |-> t, result |-> ErrResult(ErrFrame)]}
    ELSE IF resp.short
    THEN {[table |-> t, result |-> ErrResult("incomplete response body")]}
    ELSE
    LET rec == RecoverPeerKeyFromPeerSignature(resp.pub, resp.sig, Digest(resp.body))
    IN  IF rec.err
        THEN {[table |-> t, result |-> ErrResult("invalid peer signature")]}
        ELSE IF ~KeyMatches(rec.key, addr.key)
        THEN {[table |-> t, result |->
                ErrResult("peer key in address does not match peer key in response")]}
        ELSE {IF r.err
              THEN [table |-> r.table, result |-> ErrResult(ErrTable)]
              ELSE [table |-> r.table, result |-> DecodeResponse(resp.body)]
              : r \in Insert(t, addr.key, addr.ip, addr.port, clock)}

----------------------------------------------------------------------------
(* SpecNet: host B calls SendMessage, host A listens, M sends and answers
   what it likes.  Each connection is an entry of conns; a run of
   HandleRPCConnection and the part of SendMessage after the response has
   arrived are one step each, tables being shared as in SpecConc only through
   whole calls of Insert. *)

MaxConns == 2
HostMaxPeers == 1
HostLatencyPeriod == 1

\* The calls B makes, (address, method, data): every kind of request to A,
\* and a ping to M, to A's key at M's endpoint and to A's key at an endpoint
\* nobody listens on.
SendCalls ==
    {<<AddressOf("A"), "ping", NullData>>,
     <<AddressOf("A"), "find_node", HexData(PeerKeyOf("M"))>>,
     <<AddressOf("A"), "find_node", HexData(BadLenKey)>>,
     <<AddressOf("A"), "store", NullData>>,
     <<AddressOf("M"), "ping", NullData>>,
     <<Address(PeerKeyOf("A"), IPOf("M"), PortOf("M")), "ping", NullData>>,
     <<Address(PeerKeyOf("A"), IPOf("M"), ClosedPort), "ping", NullData>>}

PingBody == RequestBody(1, "ping", NullData)
FindNodeBody == RequestBody(1, "find_node", HexData(PeerKeyOf("B")))
PongBody == ResponseBody(TRUE, StrData("pong"))

\* What M writes to a connection to A.
RawRequests ==
    {BadFrame, ShortPayload,
     SignedBy("M", PortOf("M"), PingBody),
     SignedBy("M", PortOf("M"), GarbageBody),
     SignedBy("M", ClosedPort, PingBody),
     SignedBy("M", ClosedPort, FindNodeBody),
     FullPayload(PortOf("M"), "B", Ed25519Sign("M", Digest(PingBody)), PingBody),
     FullPayload(PortOf("M"), "M", Ed25519Sign("M", Digest(PingBody)), FindNodeBody)}

\* What M answers on a connection made to it.
RogueResponses ==
    {BadFrame, ShortPayload,
     SignedBy("M", 0, PongBody),
     SignedBy("M", 0, ResponseBody(FALSE, StrData("busy"))),
     SignedBy("M", 0, ResponseBody(FALSE, NullData)),
     SignedBy("M", 0, GarbageBody),
     FullPayload(0, "A", Ed25519Sign("M", Digest(PongBody)), PongBody),
     FullPayload(0, "A", Ed25519Sign("M", Digest(ResponseBody(FALSE, StrData("busy")))),
                 ResponseBody(FALSE, StrData("busy")))}

NoAddress == Address(0, "", 0)

\* The port of the socket a peer dials from: one the system picks, its
\* listening port being bound by its listener.
SourcePortOf(id) == PortOf(id) + 40000

Conn(client, server, addr, req, sstage, cstage, result) ==
    [client |-> client, srcIP |-> IPOf(client), srcPort |-> SourcePortOf(client),
     server |-> server, addr |-> addr,
     req |-> req, sstage |-> sstage, resp |-> NoPayload,
     cstage |-> cstage, result |-> result]

NetInit ==
    /\ table = NewRouteTable(PeerKeyOf("A"), HostMaxPeers, HostLatencyPeriod)
    /\ now = 0
    /\ lastCall = NoCall
    /\ task = NoTask
    /\ tables = [h \in Hosts |->
                    NewRouteTable(PeerKeyOf(h), HostMaxPeers, HostLatencyPeriod)]
    /\ conns = <<>>

\* host.go 366-416: the address is parsed, the node dialled, the request
\* signed and written.
SendMessage(host, addr, method, data) ==
    /\ Len(conns) < MaxConns
    /\ conns' = Append(conns,
         IF ~ListenerOpen(addr.ip, addr.port)
         THEN Conn(host, "", addr, NoPayload, "none", "done", ErrResult(ErrRefused))
         ELSE Conn(host, ListenerAt(addr.ip, addr.port), addr,
                   SignedBy(host, PortOf(host), RequestBody(1, method, data)),
                   "sent", "wait", NoResult))
    /\ UNCHANGED <<table, now, lastCall, task, tables>>

\* host.go 419-457: the response is read and judged.
SendMessageFinish(c) ==
    /\ conns[c].cstage = "wait"
    /\ conns[c].sstage = "responded"
    /\ \E out \in SendMessageRead(tables[conns[c].client], conns[c].addr,
                                  conns[c].resp, now) :
         /\ tables' = [tables EXCEPT ![conns[c].client] = out.table]
         /\ conns' = [conns EXCEPT ![c].cstage = "done", ![c].result = out.result]
    /\ UNCHANGED <<table, now, lastCall, task>>

\* host.go 419-422: the read deadline passes before the response arrives.
SendMessageTimeout(c) ==
    /\ conns[c].cstage = "wait"
    /\ conns[c].sstage = "sent"
    /\ conns' = [conns EXCEPT ![c].cstage = "done", ![c].result = ErrResult(ErrTimeout)]
    /\ UNCHANGED <<table, now, lastCall, task, tables>>

\* A client that is no Host writes a payload of its own to A.
RawSend(payload) ==
    /\ Len(conns) < MaxConns
    /\ conns' = Append(conns, Conn("M", "A", NoAddress, payload, "sent", "raw", NoResult))
    /\ UNCHANGED <<table, now, lastCall, task, tables>>

\* rpc.go 171-275 on a host that listens: the request is read and served, the
\* response signed by the host and written.
HandleRPCConnection(c) ==
    /\ conns[c].sstage = "sent"
    /\ conns[c].server \in Hosts
    /\ \E out \in HandleRPC(tables[conns[c].server], conns[c].srcIP, conns[c].req, now) :
         /\ tables' = [tables EXCEPT ![conns[c].server] = out.table]
         /\ conns' = [conns EXCEPT ![c].sstage = "responded",
                                   ![c].resp = SignedBy(conns[c].server, 0, out.body)]
    /\ UNCHANGED <<table, now, lastCall, task>>

\* M answers a connection made to it.
RogueRespond(c, payload) ==
    /\ conns[c].sstage = "sent"
    /\ conns[c].server = "M"
    /\ conns' = [conns EXCEPT ![c].sstage = "responded", ![c].resp = payload]
    /\ UNCHANGED <<table, now, lastCall, task, tables>>

NetNext ==
    \/ \E call \in SendCalls : SendMessage("B", call[1], call[2], call[3])
    \/ \E payload \in RawRequests : RawSend(payload)
    \/ \E c \in DOMAIN conns : HandleRPCConnection(c)
    \/ \E c \in DOMAIN conns, payload \in RogueResponses : RogueRespond(c, payload)
    \/ \E c \in DOMAIN conns : SendMessageFinish(c)
    \/ \E c \in DOMAIN conns : SendMessageTimeout(c)

SpecNet == NetInit /\ [][NetNext]_vars

----------------------------------------------------------------------------
(* Host.Ping, Host.FindNode, Host.FindClosestNodes *)

\* One whole exchange of SendMessage with a host: the dial, the run of
\* HandleRPCConnection on the server and the rest of SendMessage on the
\* caller.  down holds the hosts whose process is gone.  The result is every
\* outcome: the tables afterwards and what SendMessage returns.
Exchange(tabs, down, caller, addr, method, data, clock) ==
    IF \/ ~ListenerOpen(addr.ip, addr.port)
       \/ ListenerAt(addr.ip, addr.port) \in down
    THEN {[tables |-> tabs, result |-> ErrResult(ErrRefused)]}
    ELSE
    LET server == ListenerAt(addr.ip, addr.port)
        req == SignedBy(caller, PortOf(caller), RequestBody(1, method, data))
    IN  UNION {
         LET tabs1 == [tabs EXCEPT ![server] = s.table]
         IN  {[tables |-> [tabs1 EXCEPT ![caller] = r.table], result |-> r.result]
              : r \in SendMessageRead(tabs1[caller], addr,
                                      SignedBy(server, 0, s.body), clock)}
         : s \in HandleRPC(tabs[server], IPOf(caller), req, clock)}

\* rpc_methods.go 51-63: whether the ping returned nil.
PingOk(result) == result.status = "ok" /\ result.data = StrData("pong")

\* rpc_methods.go 66-90: whether FindNode returned addresses.
FindNodeOk(result) == result.status = "ok" /\ result.data.kind = "list"

\* peer.Address() parsed again
PeerAddress(peer) == Address(peer.key, peer.ipAddress, peer.port)

NewPeerFromAddress(address, clock) ==
    NewPeer(address.key, address.ip, address.port, clock)

\* A variant of the search that never finds the key.
HasKeyNever(peers, key) == FALSE

HasKey(peers, key) == \E i \in DOMAIN peers : peers[i].key = key

\* A variant of the distance test that lets every peer through.
TooFarNever(distance, maxDistance) == FALSE

\* dht.go 100: bytes.Compare(distance, maxDistance) > 0
TooFar(distance, maxDistance) == distance > maxDistance

\* dht.go 55-106: the addresses of one response are gone through under the
\* mutex; acc holds prevLookUpRes and newRes.
RECURSIVE ProcessAddrs(_, _, _, _, _, _, _)
ProcessAddrs(addrs, acc, inactive, maxDistance, hostKey, searchKey, clock) ==
    IF addrs = <<>> THEN acc
    ELSE
    LET peer == NewPeerFromAddress(Head(addrs), clock)
        next ==
            IF \/ HasKey(acc.prev, peer.key)
               \/ HasKey(inactive, peer.key)
               \/ HasKey(acc.newRes, peer.key)
            THEN acc
            ELSE IF \/ TooFar(XORBytes(peer.key, searchKey), maxDistance)
                    \/ peer.key = hostKey
            THEN [acc EXCEPT !.prev = Append(@, peer)]
            ELSE [acc EXCEPT !.newRes = Append(@, peer)]
    IN  ProcessAddrs(Tail(addrs), next, inactive, maxDistance, hostKey, searchKey, clock)

\* A variant of the loop's exit test that never leaves.
NoCloserNodesNever(newRes) == FALSE

\* dht.go 112: len(newRes) == 0
NoCloserNodes(newRes) == Len(newRes) = 0

\* A variant of the final cut that returns everything.
TruncateNot(peers, maxPeers) == peers

\* dht.go 126-129
Truncate(peers, maxPeers) ==
    IF Len(peers) >= maxPeers THEN SubSeq(peers, 1, maxPeers) ELSE peers

\* A variant of the loop bound that leaves the length of the slice out.
MinOfFirst(a, b) == a

MinOf(a, b) == IF a < b THEN a ELSE b

----------------------------------------------------------------------------
(* SpecLookup: host A calls FindClosestNodes in a network of the hosts B, C
   and D, each with the routing table of some set of the others, some of them
   gone.  A ping of filterDeadNodes and a FindNode of the loop are one step
   each, the goroutines of a batch taking their steps in any order; the
   exchanges act on the tables through whole calls of Insert. *)

LookupMaxPeers == 3
CallerMaxPeers == 2

Caller == "A"
LookupNodes == {"B", "C", "D"}
LookupHosts == {Caller} \cup LookupNodes
NodeOrder == <<"B", "C", "D">>

\* The keys looked up: the key of each node and a key nobody has.
SearchKeys == {PeerKeyOf(n) : n \in LookupNodes} \cup {PeerKeyOf("M")}

\* The routing table of host h after it has come to know the hosts of known.
RECURSIVE TableKnowing(_, _, _)
TableKnowing(h, maxPeers, known) ==
    IF known = <<>> THEN NewRouteTable(PeerKeyOf(h), maxPeers, HostLatencyPeriod)
    ELSE LET n == known[Len(known)]
             t == TableKnowing(h, maxPeers, SubSeq(known, 1, Len(known) - 1))
         IN  (CHOOSE r \in Insert(t, PeerKeyOf(n), IPOf(n), PortOf(n), 0) : TRUE).table

InOrder(set) == SelectSeq(NodeOrder, LAMBDA n : n \in set)

Knowledge ==
    {k \in [LookupHosts -> SUBSET LookupNodes] :
        /\ Cardinality(k[Caller]) <= CallerMaxPeers
        /\ \A n \in LookupNodes : n \notin k[n]}

NoLookup ==
    [pc |-> "idle", searchKey |-> 0, start |-> <<>>,
     cands |-> <<>>, pending |-> {}, active |-> <<>>, dead |-> <<>>, after |-> "",
     prev |-> <<>>, current |-> <<>>, inactive |-> <<>>, newRes |-> <<>>,
     maxDistance |-> -1, lastMax |-> -1, answered |-> {}, result |-> <<>>,
     concurrentRequests |-> 1, down |-> {}]

LookupInit ==
    /\ table = NewRouteTable(PeerKeyOf(Caller), CallerMaxPeers, HostLatencyPeriod)
    /\ now = 0
    /\ lastCall = NoCall
    /\ conns = <<>>
    /\ \E k \in Knowledge :
         tables = [h \in LookupHosts |->
                     TableKnowing(h, IF h = Caller THEN CallerMaxPeers ELSE LookupMaxPeers,
                                  InOrder(k[h]))]
    /\ \E cr \in 1 .. CallerMaxPeers, down \in SUBSET LookupNodes :
         task = [NoLookup EXCEPT !.concurrentRequests = cr, !.down = down]

\* filterDeadNodes(peers) starts: one goroutine for each peer.
StartFilter(t, peers, after) ==
    [t EXCEPT !.pc = "filter", !.cands = peers, !.pending = DOMAIN peers,
              !.active = <<>>, !.dead = <<>>, !.after = after]

\* dht.go 9-16: the call, up to the start of the first filterDeadNodes.
FindClosestNodes(searchKey) ==
    /\ task.pc = "idle"
    /\ task' = StartFilter([task EXCEPT !.searchKey = searchKey, !.start = tables],
                           tables[Caller].peers, "table")
    /\ UNCHANGED <<table, now, lastCall, tables, conns>>

\* rpc_methods.go 25-44: one goroutine of filterDeadNodes pings its peer.
FilterPing(i) ==
    /\ task.pc = "filter"
    /\ i \in task.pending
    /\ \E out \in Exchange(tables, task.down, Caller, PeerAddress(task.cands[i]),
                           "ping", NullData, now) :
         /\ tables' = out.tables
         /\ task' = IF PingOk(out.result)
                    THEN [task EXCEPT !.pending = @ \ {i},
                                      !.active = Append(@, task.cands[i]),
                                      !.answered = @ \cup {task.cands[i].key}]
                    ELSE [task EXCEPT !.pending = @ \ {i},
                                      !.dead = Append(@, task.cands[i])]
    /\ UNCHANGED <<table, now, lastCall, conns>>

\* dht.go 16-24 and 118-120: filterDeadNodes has returned.
FilterDone ==
    /\ task.pc = "filter"
    /\ task.pending = {}
    /\ LET sorted == SortPeersByClosest(task.active, task.searchKey)
       IN  task' =
            IF task.after = "table"
            THEN IF Len(sorted) = 0
                 THEN [task EXCEPT !.pc = "done", !.result = <<>>,
                                   !.inactive = task.dead, !.current = sorted]
                 ELSE [task EXCEPT !.pc = "top", !.inactive = task.dead,
                                   !.current = sorted]
            ELSE [task EXCEPT !.pc = "top", !.current = sorted,
                              !.inactive = @ \o task.dead]
    /\ UNCHANGED <<table, now, lastCall, tables, conns>>

\* dht.go 27-38: the top of an iteration, up to the start of the goroutines.
IterationTop ==
    /\ task.pc = "top"
    /\ LET prev == SortPeersByClosest(task.prev \o task.current, task.searchKey)
       IN  task' = [task EXCEPT
                !.pc = "query",
                !.prev = prev,
                !.lastMax = task.maxDistance,
                !.maxDistance = XORBytes(prev[Len(prev)].key, task.searchKey),
                !.newRes = <<>>,
                !.pending = 1 .. MinOf(task.concurrentRequests, Len(task.current))]
    /\ UNCHANGED <<table, now, lastCall, tables, conns>>

\* dht.go 39-107: one goroutine of the batch asks its node and goes through
\* the answer.
Query(i) ==
    /\ task.pc = "query"
    /\ i \in task.pending
    /\ \E out \in Exchange(tables, task.down, Caller, PeerAddress(task.current[i]),
                           "find_node", HexData(task.searchKey), now) :
         /\ tables' = out.tables
         /\ task' =
             IF ~FindNodeOk(out.result)
             THEN [task EXCEPT !.pending = @ \ {i}]
             ELSE LET acc == ProcessAddrs(out.result.data.list,
                                          [prev |-> task.prev, newRes |-> task.newRes],
                                          task.inactive, task.maxDistance,
                                          PeerKeyOf(Caller), task.searchKey, now)
                  IN  [task EXCEPT !.pending = @ \ {i},
                                   !.prev = acc.prev, !.newRes = acc.newRes]
    /\ UNCHANGED <<table, now, lastCall, conns>>

\* dht.go 109-129: the batch is through; the loop goes on with the new nodes
\* or the call returns.
BatchDone ==
    /\ task.pc = "query"
    /\ task.pending = {}
    /\ task' =
        IF NoCloserNodes(task.newRes)
        THEN [task EXCEPT
                !.pc = "done",
                !.prev = SortPeersByClosest(task.prev, task.searchKey),
                !.result = Truncate(SortPeersByClosest(task.prev, task.searchKey),
                                    tables[Caller].maxPeers)]
        ELSE StartFilter(task, task.newRes, "newRes")
    /\ UNCHANGED <<table, now, lastCall, tables, conns>>

LookupNext ==
    \/ \E searchKey \in SearchKeys : FindClosestNodes(searchKey)
    \/ \E i \in 1 .. LookupMaxPeers + 1 : FilterPing(i)
    \/ FilterDone
    \/ IterationTop
    \/ \E i \in 1 .. CallerMaxPeers : Query(i)
    \/ BatchDone

SpecLookup == LookupInit /\ [][LookupNext]_vars

\* The steps FindClosestNodes takes on its own once called, and the
\* exchanges it waits for.
LocalStep ==
    \/ FilterDone
    \/ IterationTop
    \/ BatchDone

ExchangeStep ==
    \/ \E i \in 1 .. LookupMaxPeers + 1 : FilterPing(i)
    \/ \E i \in 1 .. CallerMaxPeers : Query(i)

\* ENABLED <<LocalStep>>_vars: the main goroutine is not waiting.
LocalPending ==
    \/ task.pc = "top"
    \/ task.pc \in {"filter", "query"} /\ task.pending = {}

\* ENABLED <<ExchangeStep>>_vars: a goroutine has its exchange still to make.
ExchangePending == task.pc \in {"filter", "query"} /\ task.pending # {}

\* The call is made, the goroutines of FindClosestNodes are scheduled, and
\* every ping and FindNode returns: weak fairness of the call, of the local
\* steps and of the exchanges, the last two written out with their enabling
\* conditions.
SpecLookupFair ==
    /\ SpecLookup
    /\ WF_vars(\E searchKey \in SearchKeys : FindClosestNodes(searchKey))
    /\ ([]<>(~LocalPending) \/ []<><<LocalStep>>_vars)
    /\ ([]<>(~ExchangePending) \/ []<><<ExchangeStep>>_vars)

----------------------------------------------------------------------------
(* SpecPrune: the latency-prune service of host A running beside a handler  *)
(* goroutine.  NewHost starts startLatencyPruneService as a goroutine, and  *)
(* HandleRPCConnection and SendMessage call table.Insert from their own;    *)
(* the table has no lock.  One peer, B, is stored at time 0 and makes no    *)
(* exchange afterwards; M and C keep making exchanges.  The host is never   *)
(* closed.  The handler's append is the read of table.peers and the write   *)
(* of the extended slice, with the steps of the service free to fall        *)
(* between the two.                                                         *)

PruneHost == "A"
SilentPeer == "B"
ActivePeers == {"M", "C"}
PruneLatencyPeriods == {0, 1}

NoInsert == [pc |-> "idle", peer |-> NoPeer, bucketKey |-> 0, read |-> <<>>]
NoSweep == [pc |-> "idle", peers |-> <<>>, i |-> 0]

\* The table of a host that has made one exchange with the silent peer.
StoredAtStart(latencyPeriod) ==
    (CHOOSE r \in Insert(NewRouteTable(PeerKeyOf(PruneHost), MaxPeersBound, latencyPeriod),
                         PeerKeyOf(SilentPeer), IPOf(SilentPeer), PortOf(SilentPeer), 0) :
        TRUE).table

PruneInit ==
    /\ table \in {StoredAtStart(latencyPeriod) : latencyPeriod \in PruneLatencyPeriods}
    /\ now = 0
    /\ lastCall = NoCall
    /\ task = [prune |-> NoSweep, insert |-> NoInsert]
    /\ tables = NoTables
    /\ conns = <<>>

\* peer.LastSeen() of a peer of the slice being ranged over: the slice holds
\* pointers, so an update in place made since is seen.
LastSeen(peer) ==
    LET peerIndex == IndexOfKey(table.peers, peer.key)
    IN  IF peerIndex # 0 THEN table.peers[peerIndex].lastSeen ELSE peer.lastSeen

\* for !host.closed { for _, peer := range host.RouteTable().Peers() {
PruneSweep ==
    /\ task.prune.pc = "idle"
    /\ task' = [task EXCEPT !.prune = [pc |-> "scan", peers |-> table.peers, i |-> 1]]
    /\ UNCHANGED <<table, now, lastCall, tables, conns>>

\* time.Now().Unix()-peer.LastSeen() < host.latencyPeriod
IsRecent(peer) == now - LastSeen(peer) < table.latencyPeriod

\* One turn of the range loop, up to the call of Remove: the age test.
PrunePeer ==
    /\ task.prune.pc = "scan"
    /\ task.prune.i <= Len(task.prune.peers)
    /\ task' = IF IsRecent(task.prune.peers[task.prune.i])
               THEN [task EXCEPT !.prune.i = @ + 1]
               ELSE [task EXCEPT !.prune.pc = "remove"]
    /\ UNCHANGED <<table, now, lastCall, tables, conns>>

\* host.table.Remove(peer.Key()), its error dropped; the other goroutines
\* may have run since the age test.
PruneRemove ==
    /\ task.prune.pc = "remove"
    /\ table' = Remove(table, task.prune.peers[task.prune.i].key).table
    /\ task' = [task EXCEPT !.prune.pc = "scan", !.prune.i = @ + 1]
    /\ UNCHANGED <<now, lastCall, tables, conns>>

\* The end of the range loop and time.Sleep.
PruneSleep ==
    /\ task.prune.pc = "scan"
    /\ task.prune.i > Len(task.prune.peers)
    /\ task' = [task EXCEPT !.prune = NoSweep]
    /\ UNCHANGED <<table, now, lastCall, tables, conns>>

\* table.Insert in a handler goroutine, route_table.go 184-217 and 223-262:
\* everything but the append to a table with room, for which table.peers
\* is read.
HandlerInsert(id) ==
    /\ task.insert.pc = "idle"
    /\ LET key == PeerKeyOf(id)
           peerIndex == IndexOfKey(table.peers, key)
           bk == calculateKBucketKey(table, key)
           t1 == EnsureBucket(table, bk.key)
           peer == NewPeer(key, IPOf(id), PortOf(id), now)
       IN  IF peerIndex # 0
           THEN /\ table' = InsertUpdate(table, peerIndex, IPOf(id), PortOf(id), now)
                /\ UNCHANGED task
           ELSE IF HasRoom(t1)
           THEN /\ table' = t1
                /\ task' = [task EXCEPT !.insert =
                               [pc |-> "append", peer |-> peer,
                                bucketKey |-> bk.key, read |-> t1.peers]]
           ELSE /\ \E r \in InsertWhenFull(t1, bk.key, peer, now) : table' = r.table
                /\ UNCHANGED task
    /\ UNCHANGED <<now, lastCall, tables, conns>>

\* route_table.go 218-220: the slice read earlier, extended, is stored in
\* table.peers, and the key is appended to its bucket entry.
HandlerAppend ==
    /\ task.insert.pc = "append"
    /\ table' = [table EXCEPT
                    !.peers = Append(task.insert.read, task.insert.peer),
                    !.kbucket = SetBucket(table.kbucket, task.insert.bucketKey,
                                    Append(Bucket(table.kbucket, task.insert.bucketKey),
                                           task.insert.peer.key))]
    /\ task' = [task EXCEPT !.insert = NoInsert]
    /\ UNCHANGED <<now, lastCall, tables, conns>>

PruneTick ==
    /\ now < MaxTime
    /\ now' = now + 1
    /\ UNCHANGED <<table, lastCall, task, tables, conns>>

PruneService == PruneSweep \/ PrunePeer \/ PruneRemove \/ PruneSleep

PruneNext ==
    \/ PruneSweep
    \/ PrunePeer
    \/ PruneRemove
    \/ PruneSleep
    \/ \E id \in ActivePeers : HandlerInsert(id)
    \/ HandlerAppend
    \/ PruneTick

SpecPrune == PruneInit /\ [][PruneNext]_vars

\* Time passes and the service's goroutine is scheduled: weak fairness of
\* the clock and of the service, whose loop always has a step to take.
SpecPruneFair ==
    /\ SpecPrune
    /\ WF_vars(PruneTick)
    /\ []<><<PruneService>>_vars

----------------------------------------------------------------------------
(* SpecListen: host A's accept loop, Host.Close and the peers that dial.    *)
(* host.closed is an ordinary field, written by Close and read by the loop  *)
(* of Listen with nothing ordering the two: a read made after the write     *)
(* may still return false.  The listener's own lock orders                  *)
(* listener.Close() before the error Accept returns because of it, so a     *)
(* read made after that error returns true.                                 *)

Dialers == {"B", "M"}

NoListen ==
    [listen |-> "none", conn |-> 0, observed |-> FALSE, synced |-> FALSE,
     close |-> "none", closed |-> FALSE, listener |-> "open"]

ListenInit ==
    /\ table = NewRouteTable(PeerKeyOf("A"), HostMaxPeers, HostLatencyPeriod)
    /\ now = 0
    /\ lastCall = NoCall
    /\ task = NoListen
    /\ tables = NoTables
    /\ conns = <<>>

\* A variant of the read that never sees the flag set.
ReadClosedNever(t) == {FALSE}

\* The values a read of host.closed by the accept loop can return.
ReadClosed(t) ==
    IF ~t.closed THEN {FALSE}
    ELSE IF t.synced THEN {TRUE}
    ELSE {TRUE, FALSE}

\* The first connection waiting in the listener's queue, 0 when none is.
RECURSIVE FirstQueued(_, _)
FirstQueued(cs, i) ==
    IF i > Len(cs) THEN 0
    ELSE IF cs[i].state = "queued" THEN i
    ELSE FirstQueued(cs, i + 1)

\* A peer's net.Dial reaching the open listener.
Dial(id) ==
    /\ Len(conns) < MaxConns
    /\ task.listener = "open"
    /\ conns' = Append(conns, [peer |-> id, state |-> "queued"])
    /\ UNCHANGED <<table, now, lastCall, task, tables>>

\* go host.Listen()
Listen ==
    /\ task.listen = "none"
    /\ task' = [task EXCEPT !.listen = "test"]
    /\ UNCHANGED <<table, now, lastCall, tables, conns>>

\* for !host.closed
LoopTest ==
    /\ task.listen = "test"
    /\ \E closed \in ReadClosed(task) :
          task' = IF closed
                  THEN [task EXCEPT !.listen = "exited", !.observed = TRUE]
                  ELSE [task EXCEPT !.listen = "accept"]
    /\ UNCHANGED <<table, now, lastCall, tables, conns>>

\* conn, err := host.listener.Accept(); if err != nil { continue }
Accept ==
    /\ task.listen = "accept"
    /\ IF task.listener = "closed"
       THEN /\ task' = [task EXCEPT !.listen = "test", !.synced = TRUE]
            /\ UNCHANGED conns
       ELSE LET i == FirstQueued(conns, 1)
            IN  /\ i # 0
                /\ conns' = [conns EXCEPT ![i].state = "accepted"]
                /\ task' = [task EXCEPT !.listen = "dispatch", !.conn = i]
    /\ UNCHANGED <<table, now, lastCall, tables>>

\* go HandleRPCConnection(host, conn)
DispatchConn ==
    /\ task.listen = "dispatch"
    /\ conns' = [conns EXCEPT ![task.conn].state = "dispatched"]
    /\ task' = [task EXCEPT !.listen = "test", !.conn = 0]
    /\ UNCHANGED <<table, now, lastCall, tables>>

\* HandleRPCConnection running to its end: defer conn.Close()
HandlerReturn ==
    /\ \E i \in 1..Len(conns) :
          /\ conns[i].state = "dispatched"
          /\ conns' = [conns EXCEPT ![i].state = "closed"]
    /\ UNCHANGED <<table, now, lastCall, task, tables>>

\* Close: host.closed = true
CloseFlag ==
    /\ task.close = "none"
    /\ task' = [task EXCEPT !.close = "flag", !.closed = TRUE]
    /\ UNCHANGED <<table, now, lastCall, tables, conns>>

\* Close: host.listener.Close(); the connections still queued are reset.
CloseListener ==
    /\ task.close = "flag"
    /\ task' = [task EXCEPT !.close = "done", !.listener = "closed"]
    /\ conns' = [i \in 1..Len(conns) |->
                    IF conns[i].state = "queued"
                    THEN [conns[i] EXCEPT !.state = "reset"]
                    ELSE conns[i]]
    /\ UNCHANGED <<table, now, lastCall, tables>>

ListenNext ==
    \/ \E id \in Dialers : Dial(id)
    \/ Listen
    \/ LoopTest
    \/ Accept
    \/ DispatchConn
    \/ HandlerReturn
    \/ CloseFlag
    \/ CloseListener

SpecListen == ListenInit /\ [][ListenNext]_vars

\* Close runs to its end and the goroutine of Listen is scheduled.
SpecListenFair ==
    /\ SpecListen
    /\ WF_vars(CloseListener)
    /\ WF_vars(LoopTest)
    /\ WF_vars(Accept)
    /\ WF_vars(DispatchConn)

----------------------------------------------------------------------------
(* SpecConfig: NewHost called with every configuration of a small range,    *)
(* negative and zero values included.  The call leaves its arguments and    *)
(* what it returned in lastCall.                                            *)

ConfigValues == -1 .. MaxPeersBound

NoHost == [nil |-> TRUE]

\* The checks of the kademlia parameters: TRUE when NewHost returns one of
\* the three errors.
ConfigRejected(maxPeers, pingPeriod, latencyPeriod, concurrentRequests) ==
    IF pingPeriod >= latencyPeriod THEN TRUE
    ELSE IF maxPeers < 1 THEN TRUE
    ELSE IF concurrentRequests > maxPeers THEN TRUE
    ELSE FALSE

\* What NewHost returns: the error, and the host when there is none.
\* listenOk is the outcome of net.Listen.
NewHost(maxPeers, pingPeriod, latencyPeriod, concurrentRequests, listenOk) ==
    IF ConfigRejected(maxPeers, pingPeriod, latencyPeriod, concurrentRequests)
    THEN [err |-> TRUE, host |-> NoHost]
    ELSE IF ~listenOk
    THEN [err |-> TRUE, host |-> NoHost]
    ELSE [err |-> FALSE,
          host |-> [nil |-> FALSE,
                    table |-> NewRouteTable(PeerKeyOf("A"), maxPeers, latencyPeriod),
                    rpcHandlers |-> RPCHandlers,
                    closed |-> FALSE,
                    maxPeers |-> maxPeers,
                    pingPeriod |-> pingPeriod,
                    latencyPeriod |-> latencyPeriod,
                    concurrentRequests |-> concurrentRequests]]

ConfigInit ==
    /\ table = <<>>
    /\ now = 0
    /\ lastCall = NoCall
    /\ task = NoTask
    /\ tables = NoTables
    /\ conns = <<>>

CallNewHost(maxPeers, pingPeriod, latencyPeriod, concurrentRequests, listenOk) ==
    LET r == NewHost(maxPeers, pingPeriod, latencyPeriod, concurrentRequests, listenOk)
    IN  /\ lastCall' = [op |-> "NewHost", maxPeers |-> maxPeers,
                        pingPeriod |-> pingPeriod, latencyPeriod |-> latencyPeriod,
                        concurrentRequests |-> concurrentRequests,
                        listenOk |-> listenOk, err |-> r.err, host |-> r.host]
        /\ table' = IF r.err THEN table ELSE r.host.table
        /\ UNCHANGED <<now, task, tables, conns>>

ConfigNext ==
    \E maxPeers \in ConfigValues, pingPeriod \in ConfigValues,
       latencyPeriod \in ConfigValues, concurrentRequests \in ConfigValues,
       listenOk \in BOOLEAN :
        CallNewHost(maxPeers, pingPeriod, latencyPeriod, concurrentRequests, listenOk)

SpecConfig == ConfigInit /\ [][ConfigNext]_vars

----------------------------------------------------------------------------
(* FormatNodeAddress and ParseNodeAddress on texts.  A text is a sequence   *)
(* of one-character strings and a key is a sequence of bytes, so that the   *)
(* hexadecimal and decimal conversions and the regular expression are       *)
(* worked through character by character.  net.ParseIP is modelled for     *)
(* texts without a colon (the dotted-decimal parser, which refuses a field  *)
(* with a leading zero).                                                    *)

PeerKeySize == 20

DecDigits == <<"0", "1", "2", "3", "4", "5", "6", "7", "8", "9">>
HexDigits == DecDigits \o <<"a", "b", "c", "d", "e", "f">>
UpperHexDigits == DecDigits \o <<"A", "B", "C", "D", "E", "F">>

Range(s) == {s[i] : i \in DOMAIN s}
IndexIn(s, c) == CHOOSE i \in DOMAIN s : s[i] = c

\* The class [0-9A-f] of the regular expression: the digits and every
\* character from A to f of the ASCII table (the grave accent, which no
\* text of the model holds, left out).
AddressKeyClass ==
    Range(DecDigits) \cup
    {"A", "B", "C", "D", "E", "F", "G", "H", "I", "J", "K", "L", "M", "N", "O",
     "P", "Q", "R", "S", "T", "U", "V", "W", "X", "Y", "Z",
     "[", "\\", "]", "^", "_", "a", "b", "c", "d", "e", "f"}

\* A variant of the encoding that writes the low half of a byte first.
RECURSIVE HexEncodeLowFirst(_)
HexEncodeLowFirst(bytes) ==
    IF bytes = <<>> THEN <<>>
    ELSE <<HexDigits[(Head(bytes) % 16) + 1], HexDigits[(Head(bytes) \div 16) + 1]>>
            \o HexEncodeLowFirst(Tail(bytes))

\* hex.EncodeToString
RECURSIVE HexEncode(_)
HexEncode(bytes) ==
    IF bytes = <<>> THEN <<>>
    ELSE <<HexDigits[(Head(bytes) \div 16) + 1], HexDigits[(Head(bytes) % 16) + 1]>>
            \o HexEncode(Tail(bytes))

IsHexChar(c) == c \in Range(HexDigits) \cup Range(UpperHexDigits)
HexValue(c) ==
    IF c \in Range(HexDigits) THEN IndexIn(HexDigits, c) - 1
    ELSE IndexIn(UpperHexDigits, c) - 1

RECURSIVE HexDecodePairs(_)
HexDecodePairs(text) ==
    IF text = <<>> THEN <<>>
    ELSE <<16 * HexValue(text[1]) + HexValue(text[2])>>
            \o HexDecodePairs(SubSeq(text, 3, Len(text)))

\* hex.DecodeString
HexDecode(text) ==
    IF Len(text) % 2 # 0 \/ \E c \in Range(text) : ~IsHexChar(c)
    THEN [err |-> TRUE, bytes |-> <<>>]
    ELSE [err |-> FALSE, bytes |-> HexDecodePairs(text)]

\* The decimal text of a natural number.
RECURSIVE FormatNat(_)
FormatNat(n) ==
    IF n < 10 THEN <<DecDigits[n + 1]>>
    ELSE FormatNat(n \div 10) \o <<DecDigits[(n % 10) + 1]>>

\* The verb %d of fmt.Sprintf
FormatInt(n) == IF n < 0 THEN <<"-">> \o FormatNat(0 - n) ELSE FormatNat(n)

IsDecimal(text) == text # <<>> /\ \A c \in Range(text) : c \in Range(DecDigits)

\* strconv.Atoi of a text of decimal digits
RECURSIVE Atoi(_)
Atoi(text) ==
    IF text = <<>> THEN 0
    ELSE 10 * Atoi(SubSeq(text, 1, Len(text) - 1))
            + (IndexIn(DecDigits, text[Len(text)]) - 1)

\* The dotted-decimal parser behind net.ParseIP, from character i on: val
\* and digLen are the value and the length of the field being read, fields
\* the octets read so far.
RECURSIVE ParseIPv4Loop(_, _, _, _, _)
ParseIPv4Loop(text, i, val, digLen, fields) ==
    IF i > Len(text)
    THEN IF Len(fields) = 3 /\ digLen > 0
         THEN [ok |-> TRUE, octets |-> Append(fields, val)]
         ELSE [ok |-> FALSE, octets |-> <<>>]
    ELSE IF text[i] \in Range(DecDigits)
    THEN IF digLen = 1 /\ val = 0
         THEN [ok |-> FALSE, octets |-> <<>>]
         ELSE LET v == 10 * val + (IndexIn(DecDigits, text[i]) - 1)
              IN  IF v > 255 THEN [ok |-> FALSE, octets |-> <<>>]
                  ELSE ParseIPv4Loop(text, i + 1, v, digLen + 1, fields)
    ELSE IF text[i] = "."
    THEN IF digLen = 0 \/ Len(fields) = 3
         THEN [ok |-> FALSE, octets |-> <<>>]
         ELSE ParseIPv4Loop(text, i + 1, 0, 0, Append(fields, val))
    ELSE [ok |-> FALSE, octets |-> <<>>]

\* net.ParseIP followed by To4
ParseIP(text) == ParseIPv4Loop(text, 1, 0, 0, <<>>)

\* IP.String() of an IPv4 address
IPString(octets) ==
    FormatNat(octets[1]) \o <<".">> \o FormatNat(octets[2]) \o <<".">>
        \o FormatNat(octets[3]) \o <<".">> \o FormatNat(octets[4])

NodeScheme == <<"n", "o", "d", "e", ":", "/", "/">>

NoNodeAddress == [err |-> TRUE, address |-> <<>>]

\* helpers.go 20-41
FormatNodeAddress(key, addr, port) ==
    IF Len(key) # PeerKeySize THEN NoNodeAddress
    ELSE LET ip == ParseIP(addr)
         IN  IF ~ip.ok THEN NoNodeAddress
             ELSE [err |-> FALSE,
                   address |-> NodeScheme \o HexEncode(key) \o <<"@">>
                                \o IPString(ip.octets) \o <<":">> \o FormatInt(port)]

FirstIndexOf(text, c) ==
    IF c \in Range(text)
    THEN CHOOSE i \in DOMAIN text : text[i] = c /\ \A j \in 1..(i - 1) : text[j] # c
    ELSE 0

LastIndexOf(text, c) ==
    IF c \in Range(text)
    THEN CHOOSE i \in DOMAIN text : text[i] = c /\ \A j \in (i + 1)..Len(text) : text[j] # c
    ELSE 0

\* The match of ^node\:\/\/([0-9A-f]+)\@(.+)\:(\d+)$ : the first group
\* runs to the first '@', which no character of its class is, and the last
\* group is all digits, so the colon before it is the last of the text.
NodeAddressMatch(address) ==
    IF Len(address) < Len(NodeScheme) \/ SubSeq(address, 1, Len(NodeScheme)) # NodeScheme
    THEN [ok |-> FALSE, key |-> <<>>, host |-> <<>>, port |-> <<>>]
    ELSE LET rest == SubSeq(address, Len(NodeScheme) + 1, Len(address))
             at == FirstIndexOf(rest, "@")
             tail == SubSeq(rest, at + 1, Len(rest))
             colon == LastIndexOf(tail, ":")
             g1 == SubSeq(rest, 1, at - 1)
             g2 == SubSeq(tail, 1, colon - 1)
             g3 == SubSeq(tail, colon + 1, Len(tail))
         IN  IF /\ at > 1
                /\ \A c \in Range(g1) : c \in AddressKeyClass
                /\ colon > 1
                /\ IsDecimal(g3)
             THEN [ok |-> TRUE, key |-> g1, host |-> g2, port |-> g3]
             ELSE [ok |-> FALSE, key |-> <<>>, host |-> <<>>, port |-> <<>>]

NoParse == [err |-> TRUE, key |-> <<>>, ipAddress |-> <<>>, port |-> 0]

\* helpers.go 44-79
ParseNodeAddress(address) ==
    LET res == NodeAddressMatch(address)
    IN  IF ~res.ok THEN NoParse
        ELSE LET key == HexDecode(res.key)
                 ip == ParseIP(res.host)
             IN  IF key.err \/ Len(key.bytes) # PeerKeySize THEN NoParse
                 ELSE IF ~ip.ok THEN NoParse
                 ELSE [err |-> FALSE, key |-> key.bytes,
                       ipAddress |-> IPString(ip.octets), port |-> Atoi(res.port)]

----------------------------------------------------------------------------
(* SpecAddr: FormatNodeAddress called on keys, host texts and ports, valid  *)
(* and not, its result parsed again; ParseNodeAddress called on texts that  *)
(* no FormatNodeAddress wrote; SendMessage called by a host with such texts *)
(* and with addresses at which nobody listens.                              *)

KeyOfBytes(a, b) == [i \in 1..PeerKeySize |-> IF i % 2 = 1 THEN a ELSE b]

AddrKeys ==
    {KeyOfBytes(0, 0), KeyOfBytes(255, 255), KeyOfBytes(10, 171), KeyOfBytes(1, 16),
     [i \in 1..PeerKeySize |-> (13 * i) % 256],
     <<>>, [i \in 1..(PeerKeySize - 1) |-> 7], [i \in 1..(PeerKeySize + 1) |-> 7]}

AddrHosts ==
    {<<"0", ".", "0", ".", "0", ".", "0">>,
     <<"1", "0", ".", "0", ".", "0", ".", "1">>,
     <<"2", "5", "5", ".", "2", "5", "5", ".", "2", "5", "5", ".", "2", "5", "5">>,
     <<"1", "9", "2", ".", "1", "6", "8", ".", "1", ".", "2", "0">>,
     <<"2", "5", "6", ".", "0", ".", "0", ".", "1">>,
     <<"0", "1", "0", ".", "0", ".", "0", ".", "1">>,
     <<"1", ".", "2", ".", "3">>,
     <<"1", ".", "2", ".", "3", ".", "4", ".", "5">>,
     <<"1", ".", ".", "3", ".", "4">>,
     <<"h", "o", "s", "t">>,
     <<>>}

AddrPorts == {0, 1, 80, 3000, 65535, 65536, -1}

\* Texts handed to ParseNodeAddress directly: upper-case hexadecimal, a key
\* of the class that is no hexadecimal, a short key, no port, no scheme.
ForeignAddresses ==
    {NodeScheme \o [i \in 1..(2 * PeerKeySize) |-> "A"] \o <<"@", "1", ".", "2", ".", "3", ".", "4", ":", "8", "0">>,
     NodeScheme \o [i \in 1..(2 * PeerKeySize) |-> "G"] \o <<"@", "1", ".", "2", ".", "3", ".", "4", ":", "8", "0">>,
     NodeScheme \o <<"a", "b">> \o <<"@", "1", ".", "2", ".", "3", ".", "4", ":", "8", "0">>,
     NodeScheme \o HexEncode(KeyOfBytes(1, 2)) \o <<"@", "1", ".", "2", ".", "3", ".", "4">>,
     NodeScheme \o HexEncode(KeyOfBytes(1, 2)) \o <<"@", "h", ":", "8", "0">>,
     HexEncode(KeyOfBytes(1, 2)) \o <<"@", "1", ".", "2", ".", "3", ".", "4", ":", "8", "0">>}

NoAddrCall ==
    [op |-> "none", key |-> <<>>, ipAddress |-> <<>>, port |-> 0,
     formatted |-> NoNodeAddress, parsed |-> NoParse, result |-> NoResult]

AddrInit ==
    /\ table = <<>>
    /\ now = 0
    /\ lastCall = NoAddrCall
    /\ task = NoTask
    /\ tables = NoTables
    /\ conns = <<>>

\* TestNodeAddressParsing: format, then parse what was formatted.
CallFormatParse(key, addr, port) ==
    LET nodeAddress == FormatNodeAddress(key, addr, port)
    IN  /\ lastCall' = [op |-> "FormatParse", key |-> key, ipAddress |-> addr,
                        port |-> port, formatted |-> nodeAddress,
                        parsed |-> IF nodeAddress.err THEN NoParse
                                   ELSE ParseNodeAddress(nodeAddress.address),
                        result |-> NoResult]
        /\ UNCHANGED <<table, now, task, tables, conns>>

CallParse(address) ==
    /\ lastCall' = [op |-> "Parse", key |-> <<>>, ipAddress |-> <<>>, port |-> 0,
                    formatted |-> [err |-> FALSE, address |-> address],
                    parsed |-> ParseNodeAddress(address),
                    result |-> NoResult]
    /\ UNCHANGED <<table, now, task, tables, conns>>

\* The addresses of peers that have gone away.
UnreachableAddresses ==
    {FormatNodeAddress(KeyOfBytes(1, 2), <<"1", "0", ".", "0", ".", "0", ".", "9">>, port).address :
        port \in {80, 3000}}

\* host.go 372-382: SendMessage parses the address and panics with the error
\* of ParseNodeAddress; with an address that parses it dials, and net.Dial
\* to an endpoint without a listener returns an error, which it returns.
CallSendMessage(address) ==
    LET parsed == ParseNodeAddress(address)
    IN  /\ lastCall' = [op |-> "SendMessage", key |-> <<>>, ipAddress |-> <<>>, port |-> 0,
                        formatted |-> [err |-> FALSE, address |-> address],
                        parsed |-> parsed,
                        result |-> IF parsed.err THEN PanicResult
                                   ELSE ErrResult(ErrRefused)]
        /\ UNCHANGED <<table, now, task, tables, conns>>

AddrNext ==
    \/ \E key \in AddrKeys, addr \in AddrHosts, port \in AddrPorts :
          CallFormatParse(key, addr, port)
    \/ \E address \in ForeignAddresses : CallParse(address)
    \/ \E address \in ForeignAddresses \cup UnreachableAddresses : CallSendMessage(address)

SpecAddr == AddrInit /\ [][AddrNext]_vars

----------------------------------------------------------------------------
(* SpecSort: SortPeersByLastSeen called on tables of up to MaxPeersBound + 1 *)
(* peers, stored in every order and with every combination of last-seen     *)
(* times up to MaxTime, and FindNodeHandler called on the same tables with  *)
(* every target key.                                                        *)

SortKeys == {4, 7, 6, 1}

\* The table in which the peers were appended one after the other.
RECURSIVE TableOfPeers(_, _)
TableOfPeers(t, peers) ==
    IF peers = <<>> THEN t
    ELSE TableOfPeers(AppendPeer(t, calculateKBucketKey(t, Head(peers).key).key,
                                 Head(peers)),
                      Tail(peers))

\* The sequences of peers a table can hold: distinct keys, any times.
StoredPeers ==
    UNION {{peers \in [1..n -> [key : SortKeys, ipAddress : {"10.0.0.1"},
                                port : {3000}, lastSeen : 0..MaxTime]] :
                \A i, j \in 1..n : i # j => peers[i].key # peers[j].key}
           : n \in 0..(MaxPeersBound + 1)}

NoSortCall == [op |-> "none", peers |-> <<>>, key |-> 0, res |-> PingHandler]

SortInit ==
    /\ table \in {TableOfPeers(NewRouteTable(5, MaxPeersBound + 1, 1), peers) :
                    peers \in StoredPeers}
    /\ now = MaxTime
    /\ lastCall = NoSortCall
    /\ task = NoTask
    /\ tables = NoTables
    /\ conns = <<>>

\* table.SortPeersByLastSeen()
CallSortPeersByLastSeen ==
    /\ lastCall.op = "none"
    /\ lastCall' = [NoSortCall EXCEPT !.op = "SortPeersByLastSeen",
                                      !.peers = SortPeersByLastSeen(table)]
    /\ UNCHANGED <<table, now, task, tables, conns>>

\* FindNodeHandler(host, remotePeer, req) for a request whose data is the
\* hex text of key; the handler reads host.table and returns its answer.
CallFindNodeHandler(key) ==
    /\ lastCall.op = "none"
    /\ lastCall' = [NoSortCall EXCEPT
                       !.op = "FindNodeHandler",
                       !.key = key,
                       !.res = FindNodeHandler(table, RequestBody(1, "find_node", HexData(key)))]
    /\ UNCHANGED <<table, now, task, tables, conns>>

SortNext ==
    \/ CallSortPeersByLastSeen
    \/ \E key \in Keys \cup {BadLenKey} : CallFindNodeHandler(key)

SpecSort == SortInit /\ [][SortNext]_vars

----------------------------------------------------------------------------
(* SpecServices: the two services NewHost starts on host A, each in its own *)
(* goroutine, with A's table holding B, a host of this program that is up   *)
(* and answers every request, and M, which answers as it likes or not at    *)
(* all.  The ping service waits in SendMessage for the response; the table  *)
(* is written by whole calls of Insert and Remove.  The steps of a pass     *)
(* take no time: a second passes while the ping service waits for a         *)
(* response, or between two passes once it has made a whole pass in the     *)
(* second before (task.passed), the prune service being between passes.     *)

ServiceHost == "A"
AnsweringPeer == "B"
RoguePeer == "M"

\* (pingPeriod, latencyPeriod): NewHost wants the first below the second.
ServicePeriods == {<<0, 1>>, <<1, 2>>}

\* The peers stored when the services start, in the order of their inserts.
ServicePeers == {<<"B">>, <<"B", "M">>, <<"M", "B">>}

NoPing == [op |-> "none", key |-> 0, ok |-> FALSE, status |-> "none"]

RECURSIVE ServiceTable(_, _)
ServiceTable(latencyPeriod, ids) ==
    IF ids = <<>>
    THEN NewRouteTable(PeerKeyOf(ServiceHost), MaxPeersBound, latencyPeriod)
    ELSE LET id == ids[Len(ids)]
             t == ServiceTable(latencyPeriod, SubSeq(ids, 1, Len(ids) - 1))
         IN  (CHOOSE r \in Insert(t, PeerKeyOf(id), IPOf(id), PortOf(id), 0) : TRUE).table

ServicesInit ==
    /\ \E periods \in ServicePeriods, ids \in ServicePeers :
         /\ table = ServiceTable(periods[2], ids)
         /\ task = [ping |-> NoSweep, prune |-> NoSweep, pingPeriod |-> periods[1],
                    passed |-> FALSE]
    /\ tables = [h \in {AnsweringPeer} |->
                    NewRouteTable(PeerKeyOf(h), MaxPeersBound, HostLatencyPeriod)]
    /\ now = 0
    /\ lastCall = NoPing
    /\ conns = <<>>

\* The tables of the hosts of this program, A's being table.
HostTables == [h \in {ServiceHost, AnsweringPeer} |->
                  IF h = ServiceHost THEN table ELSE tables[h]]

\* for !host.closed { for _, peer := range host.RouteTable().Peers() {
PingSweep ==
    /\ task.ping.pc = "idle"
    /\ task' = [task EXCEPT !.ping = [pc |-> "scan", peers |-> table.peers, i |-> 1]]
    /\ UNCHANGED <<table, now, lastCall, tables, conns>>

\* host.go 473: the peer is passed over when
\* time.Now().Unix()-peer.LastSeen() < host.pingPeriod.
PingDue(peer) == ~(now - LastSeen(peer) < task.pingPeriod)

\* One turn of the range loop, up to the request of host.Ping being written:
\* the age test, peer.Address(), and SendMessage as far as its read.
PingPeer ==
    /\ task.ping.pc = "scan"
    /\ task.ping.i <= Len(task.ping.peers)
    /\ task' = IF PingDue(task.ping.peers[task.ping.i])
               THEN [task EXCEPT !.ping.pc = "wait"]
               ELSE [task EXCEPT !.ping.i = @ + 1]
    /\ UNCHANGED <<table, now, lastCall, tables, conns>>

\* What host.Ping makes of the result of SendMessage, and the service of
\* that: a panic of SendMessage ends the goroutines of the process, every
\* other result is dropped and the loop goes on.
AfterPing(key, result) ==
    /\ lastCall' = [op |-> "Ping", key |-> key, ok |-> PingOk(result),
                    status |-> result.status]
    /\ task' = IF result.status = "panic"
               THEN [task EXCEPT !.ping.pc = "gone", !.prune.pc = "gone"]
               ELSE [task EXCEPT !.ping.pc = "scan", !.ping.i = @ + 1]

\* The response of the peer arrives and SendMessage and Ping return.
PingReturn ==
    /\ task.ping.pc = "wait"
    /\ LET peer == task.ping.peers[task.ping.i]
           addr == PeerAddress(peer)
       IN  IF ListenerAt(addr.ip, addr.port) = RoguePeer
           THEN \E resp \in RogueResponses :
                  \E out \in SendMessageRead(table, addr, resp, now) :
                     /\ table' = out.table
                     /\ UNCHANGED tables
                     /\ AfterPing(peer.key, out.result)
           ELSE \E out \in Exchange(HostTables, {}, ServiceHost, addr,
                                    "ping", NullData, now) :
                     /\ table' = out.tables[ServiceHost]
                     /\ tables' = [h \in {AnsweringPeer} |-> out.tables[h]]
                     /\ AfterPing(peer.key, out.result)
    /\ UNCHANGED <<now, conns>>

\* No response of M arrives before the read deadline of SendMessage.
PingTimeout ==
    /\ task.ping.pc = "wait"
    /\ LET peer == task.ping.peers[task.ping.i]
       IN  /\ ListenerAt(peer.ipAddress, peer.port) = RoguePeer
           /\ AfterPing(peer.key, ErrResult(ErrTimeout))
    /\ UNCHANGED <<table, now, tables, conns>>

\* The end of the range loop and time.Sleep.
PingSleep ==
    /\ task.ping.pc = "scan"
    /\ task.ping.i > Len(task.ping.peers)
    /\ task' = [task EXCEPT !.ping = NoSweep, !.passed = TRUE]
    /\ UNCHANGED <<table, now, lastCall, tables, conns>>

\* time.Now().Unix() goes up by one.
ServicesTick ==
    /\ now < MaxTime
    /\ \/ task.ping.pc = "wait"
       \/ task.ping.pc = "idle" /\ task.passed
    /\ task.prune.pc = "idle"
    /\ now' = now + 1
    /\ task' = [task EXCEPT !.passed = FALSE]
    /\ UNCHANGED <<table, lastCall, tables, conns>>

ServicesNext ==
    \/ PingSweep
    \/ PingPeer
    \/ PingReturn
    \/ PingTimeout
    \/ PingSleep
    \/ PruneSweep
    \/ PrunePeer
    \/ PruneRemove
    \/ PruneSleep
    \/ ServicesTick

SpecServices == ServicesInit /\ [][ServicesNext]_vars

----------------------------------------------------------------------------
(* Properties of the routing table *)

PeerKeys(t) == {t.peers[i].key : i \in 1..Len(t.peers)}

\* The i-th bit of a key, and the position of the highest bit in which two
\* different keys differ.
Bit(x, i) == (x \div (2^i)) % 2
HighestDiffBit(a, b) ==
    CHOOSE i \in 0..(KeyBits - 1) :
        /\ Bit(a, i) # Bit(b, i)
        /\ \A j \in (i + 1)..(KeyBits - 1) : Bit(a, j) = Bit(b, j)

\* How many times key is listed in the side index, all buckets together.
RECURSIVE CountIn(_, _)
CountIn(entries, key) ==
    IF entries = <<>> THEN 0
    ELSE (IF Head(entries) = key THEN 1 ELSE 0) + CountIn(Tail(entries), key)

RECURSIVE SumOver(_, _, _)
SumOver(kbucket, buckets, key) ==
    IF buckets = {} THEN 0
    ELSE LET b == CHOOSE x \in buckets : TRUE
         IN  CountIn(kbucket[b], key) + SumOver(kbucket, buckets \ {b}, key)

Listings(t, key) == SumOver(t.kbucket, DOMAIN t.kbucket, key)

\* C1: whatever Insert and Remove calls were made on a table built with
\* max_peers = k >= 1, the table stores at most k peers.
C1_AtMostMaxPeers == Len(table.peers) <= table.maxPeers

\* C1's case: an Insert of a new key into a full table has just succeeded.
C1_Witness ==
    /\ lastCall.op = "Insert" /\ lastCall.ok
    /\ Len(table.peers) = table.maxPeers
    /\ table.maxPeers > 1
    /\ table.peers[Len(table.peers)].key = lastCall.key
    /\ table.peers[Len(table.peers)].lastSeen > table.peers[1].lastSeen

\* C2: after any sequence of Insert and Remove calls no two records of the
\* peers sequence have the same key.
C2_KeysUnique ==
    \A i, j \in 1..Len(table.peers) :
        i # j => table.peers[i].key # table.peers[j].key

\* C2's case: an Insert of a key that is already stored has just returned true.
C2_Witness ==
    /\ lastCall.op = "Insert" /\ lastCall.ok
    /\ Len(table.peers) = 2
    /\ table.peers[1].key = lastCall.key
    /\ table.peers[1].lastSeen > table.peers[2].lastSeen

\* C3: a key is listed in the side index iff it is in the peers sequence, it
\* is listed once, and the bucket listing it is the one named by the highest
\* set bit of key XOR locus_key.
C3_SideIndexConsistent ==
    /\ \A key \in PeerKeys(table) : Listings(table, key) = 1
    /\ \A b \in DOMAIN table.kbucket :
         \A i \in 1..Len(table.kbucket[b]) :
            LET key == table.kbucket[b][i]
            IN  /\ key \in PeerKeys(table)
                /\ key # table.locusKey
                /\ b = 2^HighestDiffBit(key, table.locusKey)

\* C3's case: an Insert has just put a second key into a bucket, while another
\* bucket has been emptied by a Remove.
C3_Witness ==
    /\ lastCall.op = "Insert" /\ lastCall.ok
    /\ \E b \in DOMAIN table.kbucket :
          /\ Len(table.kbucket[b]) = 2
          /\ table.kbucket[b][2] = lastCall.key
    /\ \E b \in DOMAIN table.kbucket : Len(table.kbucket[b]) = 0

\* C4: Insert with key == locus_key returns false and leaves the peers
\* sequence and the side index as they were; the locus key is never stored.
C4_LocusRejected ==
    /\ [](table.locusKey \notin PeerKeys(table))
    /\ [][(lastCall = NoCall /\ lastCall'.op = "Insert"
                /\ lastCall'.key = table.locusKey)
            => (table' = table /\ ~lastCall'.ok)]_vars

\* C4's case: Insert was called with the locus key on a table that has peers.
C4_Witness ==
    /\ lastCall.op = "Insert"
    /\ lastCall.key = table.locusKey
    /\ ~lastCall.ok
    /\ Len(table.peers) > 0

\* C5: the table's mutations are serialized, so that in every interleaving
\* of the goroutines that insert into it the keys stay unique and the table
\* holds at most max_peers peers.
C5_SerializedInserts ==
    /\ Len(table.peers) <= table.maxPeers
    /\ \A i, j \in 1..Len(table.peers) :
          i # j => table.peers[i].key # table.peers[j].key


----------------------------------------------------------------------------
(* Properties of the RPC exchange (SpecNet) *)

\* The payload is whole and its signature is one the key pair of its public
\* key made over SHA-256 of its body.
GenuineSignature(p) ==
    /\ p.frame = "ok" /\ ~p.short
    /\ p.sig.signer = p.pub /\ p.sig.digest = [sha256 |-> p.body]

\* The payload is whole but its signature does not verify.
BadSignature(p) ==
    /\ p.frame = "ok" /\ ~p.short
    /\ ~(p.sig.signer = p.pub /\ p.sig.digest = [sha256 |-> p.body])

\* This step is a host serving connection c.
Served(c) ==
    /\ conns[c].sstage = "sent" /\ conns[c].server \in Hosts
    /\ conns'[c].sstage = "responded"

\* This step is the one in which the call of SendMessage on connection c returns.
Returned(c) ==
    /\ c \in DOMAIN conns'
    /\ conns'[c].client \in Hosts
    /\ conns'[c].cstage = "done"
    /\ (c \in DOMAIN conns => conns[c].cstage # "done")

\* The response on c is a whole payload, verifies, and is of the key in the
\* address the call was made to.
FromAddressed(conn) ==
    /\ GenuineSignature(conn.resp)
    /\ PeerKeyOf(conn.resp.pub) = conn.addr.key

PeersAre(t, key, ip, port) ==
    /\ Len(t.peers) = 1
    /\ t.peers[1].key = key /\ t.peers[1].ipAddress = ip /\ t.peers[1].port = port

ServedWith(c, text) ==
    /\ conns'[c].resp.body.json = "response"
    /\ conns'[c].resp.body.success = FALSE
    /\ conns'[c].resp.body.data = StrData(text)
    /\ tables' = tables

C7_OnlyAddressedPeerSucceeds ==
    /\ [](\A c \in DOMAIN conns :
            (conns[c].cstage = "done" /\ conns[c].result.status = "ok")
                => FromAddressed(conns[c]))
    /\ [][\A c \in DOMAIN conns :
            (Returned(c) /\ conns[c].sstage = "responded"
                /\ GenuineSignature(conns[c].resp)
                /\ PeerKeyOf(conns[c].resp.pub) # conns[c].addr.key)
            => (conns'[c].result.status = "error" /\ tables' = tables)]_vars

C7_Witness ==
    \E c \in DOMAIN conns :
        /\ conns[c].cstage = "done" /\ conns[c].result.status = "error"
        /\ GenuineSignature(conns[c].resp)
        /\ PeerKeyOf(conns[c].resp.pub) # conns[c].addr.key
        /\ conns[c].result.err = "peer key in address does not match peer key in response"


\* The table of the caller after a call that reached the insert: the peer of
\* the address is in it with the endpoint of the address whenever it was in
\* it before or the table had room; the other tables are as they were.
ResponderRecorded(c) ==
    LET h == conns[c].client
        a == conns[c].addr
    IN  /\ \A g \in Hosts \ {h} : tables'[g] = tables[g]
        /\ (a.key \in PeerKeys(tables[h]) \/ Len(tables[h].peers) < tables[h].maxPeers)
            => \E i \in DOMAIN tables'[h].peers :
                    /\ tables'[h].peers[i].key = a.key
                    /\ tables'[h].peers[i].ipAddress = a.ip
                    /\ tables'[h].peers[i].port = a.port
                    /\ tables'[h].peers[i].lastSeen = now

\* C8 as stated: whenever SendMessage returns an error, the routing tables
\* after the call are the routing tables before it.
C8_AsStated ==
    [][\A c \in 1 .. MaxConns :
        (Returned(c) /\ conns'[c].result.status = "error") => tables' = tables]_vars

\* C8 (as the code has it): a call of SendMessage that returns an error
\* because the connection was refused, the response could not be read or was
\* short, its signature did not verify or its key was not the key of the
\* address leaves the routing tables as they were; a call that returns an
\* error because the body of a verified response of the addressed key could
\* not be decoded or said success=false has by then recorded that peer.
C8_ErrorBeforeInsertKeepsTable ==
    [][\A c \in 1 .. MaxConns :
        (Returned(c) /\ conns'[c].result.status = "error")
            => IF c \in DOMAIN conns /\ conns[c].sstage = "responded"
                    /\ FromAddressed(conns[c])
               THEN /\ ResponderRecorded(c)
                    /\ \/ conns[c].resp.body.json = "garbage"
                       \/ ~conns[c].resp.body.success
               ELSE tables' = tables]_vars

C8_Witness ==
    /\ Len(conns) = 1
    /\ conns[1].client = "B" /\ conns[1].cstage = "done"
    /\ conns[1].result.status = "error"
    /\ conns[1].result.err = "Unknown RPC method"
    /\ FromAddressed(conns[1])
    /\ PeerKeys(tables["B"]) = {PeerKeyOf("A")}

C10_PingFillsBothTables ==
    (/\ Len(conns) = 1
     /\ conns[1].client = "B" /\ conns[1].server = "A"
     /\ conns[1].req.body.method = "ping"
     /\ conns[1].cstage = "done" /\ conns[1].result.status = "ok")
    => /\ PeersAre(tables["A"], PeerKeyOf("B"), IPOf("B"), PortOf("B"))
       /\ PeersAre(tables["B"], PeerKeyOf("A"), IPOf("A"), PortOf("A"))

C10_Witness ==
    /\ Len(conns) = 1
    /\ conns[1].client = "B" /\ conns[1].server = "A"
    /\ conns[1].req.body.method = "ping"
    /\ conns[1].cstage = "done" /\ conns[1].result = OkResult(StrData("pong"))
    /\ PeerKeys(tables["A"]) = {PeerKeyOf("B")}
    /\ PeerKeys(tables["B"]) = {PeerKeyOf("A")}


----------------------------------------------------------------------------
(* Properties of the lookup (SpecLookup, SpecLookupFair) *)

Distance(peer) == XorNat(peer.key, task.searchKey)

KeysOf(peers) == {peers[i].key : i \in DOMAIN peers}

\* C11: every call of FindClosestNodes returns, whatever the target, the
\* tables of the nodes and the set of nodes that are gone, when its goroutines
\* are scheduled and every ping and FindNode returns.
C11_LookupTerminates == (task.pc # "idle") ~> (task.pc = "done")

C11_Witness ==
    /\ task.pc = "done"
    /\ task.lastMax # -1
    /\ Len(task.inactive) > 0
    /\ Len(task.result) > 1


\* This step is the top of an iteration after the first.
NextIteration == task.pc = "top" /\ task'.pc = "query" /\ task.maxDistance # -1

C13_ResultClosestPrefix ==
    task.pc = "done" =>
        /\ Len(task.result) <= tables[Caller].maxPeers
        /\ \A i, j \in DOMAIN task.result :
                i < j => Distance(task.result[i]) <= Distance(task.result[j])
        /\ KeysOf(task.result) \subseteq KeysOf(task.prev)
        /\ \A i \in DOMAIN task.prev :
                task.prev[i].key \notin KeysOf(task.result)
                    => /\ Len(task.result) = tables[Caller].maxPeers
                       /\ \A j \in DOMAIN task.result :
                            Distance(task.result[j]) <= Distance(task.prev[i])

C13_Witness ==
    /\ task.pc = "done"
    /\ Len(task.prev) > tables[Caller].maxPeers
    /\ Len(task.result) = tables[Caller].maxPeers
    /\ Len(task.result) > 1

\* C14 as stated: every peer of the returned list answered a ping of this
\* host during the call.
C14_ResultIsLive == task.pc = "done" => KeysOf(task.result) \subseteq task.answered

\* The tables at the call are a chain: the host knows the first node only,
\* each node its neighbours only, and the target is the key of the last.
ChainLookup ==
    \E n1, n2, n3 \in LookupNodes :
        /\ {n1, n2, n3} = LookupNodes
        /\ KeysOf(task.start[Caller].peers) = {PeerKeyOf(n1)}
        /\ KeysOf(task.start[n1].peers) = {PeerKeyOf(n2)}
        /\ KeysOf(task.start[n2].peers) = {PeerKeyOf(n1), PeerKeyOf(n3)}
        /\ KeysOf(task.start[n3].peers) = {PeerKeyOf(n2)}
        /\ task.searchKey = PeerKeyOf(n3)

\* C15 as stated: in a chain of live nodes the lookup of the last node's key
\* returns a list with the last node in it.
C15_ChainFindsLast ==
    (task.pc = "done" /\ task.down = {} /\ ChainLookup)
        => task.searchKey \in KeysOf(task.result)


----------------------------------------------------------------------------
(* Properties of the routing table (Spec), continued *)

\* This step is a call of Insert with a key that is new to the table, is not
\* the locus key and has the length of the locus key.
InsertOfNewKey ==
    /\ lastCall = NoCall /\ lastCall'.op = "Insert"
    /\ lastCall'.key # BadLenKey
    /\ lastCall'.key # table.locusKey
    /\ lastCall'.key \notin PeerKeys(table)

\* C16 as stated: with max_peers = 2 and latency_period = 0, the Insert of a
\* third key at the time of the first two returns true, the key is stored,
\* and the peer that went is one with the oldest last_seen.
C16_ThirdInsertEvictsOldest ==
    [][(/\ InsertOfNewKey
        /\ table.maxPeers = 2 /\ table.latencyPeriod = 0
        /\ Len(table.peers) = 2
        /\ \A i \in DOMAIN table.peers : table.peers[i].lastSeen = now)
       => /\ lastCall'.ok
          /\ lastCall'.key \in PeerKeys(table')
          /\ \A i \in DOMAIN table.peers :
                table.peers[i].key \notin PeerKeys(table')
                    => \A j \in DOMAIN table.peers :
                            table.peers[i].lastSeen <= table.peers[j].lastSeen]_vars


----------------------------------------------------------------------------
(* Properties of the RPC exchange (SpecNet), continued *)

\* This step is a host serving, with an empty routing table, a whole and
\* validly signed find_node request for a key of the right length.
FindNodeOnEmptyTable(c) ==
    /\ Served(c)
    /\ GenuineSignature(conns[c].req)
    /\ conns[c].req.body.json = "request"
    /\ conns[c].req.body.method = "find_node"
    /\ conns[c].req.body.data.kind = "hex"
    /\ conns[c].req.body.data.key # BadLenKey
    /\ tables[conns[c].server].peers = <<>>

\* C17 as stated: a find_node request to a host whose routing table is empty
\* is answered with success=true and the empty list.
C17_AsStated ==
    [][\A c \in DOMAIN conns :
        FindNodeOnEmptyTable(c)
            => /\ conns'[c].resp.body.success = TRUE
               /\ conns'[c].resp.body.data = ListData(<<>>)]_vars

\* C17 (as the code has it): such a request is answered with success=true
\* and a list; the list is empty when the host could not connect to the port
\* the requester gave, and otherwise holds the address of the requester
\* itself (its key, the IP it connected from, the port it gave), which the
\* host has recorded before it ran the handler.
C17_EmptyTableAnswersRequester ==
    [][\A c \in DOMAIN conns :
        FindNodeOnEmptyTable(c)
            => /\ conns'[c].resp.body.success = TRUE
               /\ conns'[c].resp.body.data.kind = "list"
               /\ conns'[c].resp.body.data.list =
                    IF \E id \in Identities :
                            /\ IPOf(id) = conns[c].srcIP
                            /\ PortOf(id) = conns[c].req.port
                    THEN <<[key |-> PeerKeyOf(conns[c].req.pub),
                            ip |-> conns[c].srcIP,
                            port |-> conns[c].req.port]>>
                    ELSE <<>>]_vars

C17_Witness ==
    /\ Len(conns) = 1
    /\ conns[1].client = "B" /\ conns[1].server = "A"
    /\ conns[1].sstage = "responded"
    /\ conns[1].req.body.method = "find_node"
    /\ conns[1].resp.body.success = TRUE
    /\ conns[1].resp.body.data = ListData(<<AddressOf("B")>>)


\* A step of inbound handling fails for this request: the frame cannot be
\* read, the payload is too short, the signature does not verify, the body is
\* no JSON, the method is not registered, or the handler returns an error
\* (find_node without the hex string of a key of the right length).
InboundFails(req) ==
    \/ req.frame = "bad"
    \/ req.short
    \/ BadSignature(req)
    \/ req.body.json = "garbage"
    \/ req.body.method \notin {"ping", "find_node"}
    \/ /\ req.body.method = "find_node"
       /\ (req.body.data.kind # "hex" \/ req.body.data.key = BadLenKey)

\* C20: a host that serves a connection writes one response, signed by
\* itself, and is then done with the connection; when a step of the handling
\* fails the response says success=false with a reason string, and it says
\* success=true only when a registered handler returned without error.
C20_OneSignedResponse ==
    [][\A c \in DOMAIN conns :
        /\ Served(c) =>
            /\ GenuineSignature(conns'[c].resp)
            /\ conns'[c].resp.pub = conns[c].server
            /\ conns'[c].resp.body.json = "response"
            /\ InboundFails(conns[c].req) <=> ~conns'[c].resp.body.success
            /\ ~conns'[c].resp.body.success =>
                    /\ conns'[c].resp.body.data.kind = "string"
                    /\ conns'[c].resp.body.data.str # ""
        /\ conns[c].sstage = "responded" => conns'[c] = [conns[c] EXCEPT
                                                !.cstage = conns'[c].cstage,
                                                !.result = conns'[c].result]]_vars

C20_Witness ==
    \E c, d \in DOMAIN conns :
        /\ conns[c].server = "A" /\ conns[c].sstage = "responded"
        /\ conns[c].resp.body.data = StrData("Unknown RPC method")
        /\ conns[d].server = "A" /\ conns[d].sstage = "responded"
        /\ conns[d].req.body.json = "garbage"
        /\ GenuineSignature(conns[d].req)
        /\ ~conns[d].resp.body.success
        /\ conns[d].resp.body.data.kind = "string"

----------------------------------------------------------------------------
(* Properties of the host's services (SpecPrune, SpecPruneFair) *)

\* C18: a stored peer that completes no further exchange is eventually
\* removed from the table by the latency-prune service, the host staying
\* open and the service being scheduled fairly.
C18_SilentPeerPruned ==
    (PeerKeyOf(SilentPeer) \in PeerKeys(table)) ~> (PeerKeyOf(SilentPeer) \notin PeerKeys(table))

\* The connections handed to HandleRPCConnection so far.
Dispatched == {i \in 1..Len(conns) : conns[i].state \in {"dispatched", "closed"}}

\* C19: once Close has been called the accept loop of Listen eventually is
\* not running, and after the loop has read the closed flag as set no
\* further connection is handed to a handler.
C19_ClosedHostStopsAccepting ==
    /\ (task.closed ~> (task.listen \in {"none", "exited"}))
    /\ [][task.observed => Dispatched' = Dispatched]_vars

\* The loop served a connection, Close ran, and the loop read the flag and
\* left.
C19_Witness ==
    /\ task.close = "done"
    /\ task.observed
    /\ task.listen = "exited"
    /\ Dispatched # {}

----------------------------------------------------------------------------
(* Properties of host construction (SpecConfig) *)

\* C21: NewHost returns an error and no host for every configuration with
\* ping_period >= latency_period, max_peers < 1, concurrent_requests < 1 or
\* concurrent_requests > max_peers.
C21_InvalidConfigFails ==
    (/\ lastCall.op = "NewHost"
     /\ \/ lastCall.pingPeriod >= lastCall.latencyPeriod
        \/ lastCall.maxPeers < 1
        \/ lastCall.concurrentRequests < 1
        \/ lastCall.concurrentRequests > lastCall.maxPeers)
    => (lastCall.err /\ lastCall.host = NoHost)

----------------------------------------------------------------------------
(* Properties of the node address (SpecAddr) *)

\* A dotted quad: four decimal fields of value at most 255, none written
\* with a leading zero.
OctetTexts == {FormatNat(n) : n \in 0..255}

RECURSIVE SplitOn(_, _)
SplitOn(text, c) ==
    IF c \notin Range(text) THEN <<text>>
    ELSE LET i == FirstIndexOf(text, c)
         IN  <<SubSeq(text, 1, i - 1)>> \o SplitOn(SubSeq(text, i + 1, Len(text)), c)

IsDottedQuad(text) ==
    LET fields == SplitOn(text, ".")
    IN  Len(fields) = 4 /\ \A i \in 1..4 : fields[i] \in OctetTexts

ValidTriple(key, addr, port) ==
    /\ Len(key) = PeerKeySize
    /\ IsDottedQuad(addr)
    /\ port \in 0..65535

\* C22: for every valid triple (key of 20 bytes, dotted-quad IPv4, port in
\* 0..65535) formatting succeeds and parsing the formatted address succeeds
\* and returns the same key, address and port.
C22_AddressRoundTrip ==
    (lastCall.op = "FormatParse" /\ ValidTriple(lastCall.key, lastCall.ipAddress, lastCall.port))
    => /\ ~lastCall.formatted.err
       /\ ~lastCall.parsed.err
       /\ lastCall.parsed.key = lastCall.key
       /\ lastCall.parsed.ipAddress = lastCall.ipAddress
       /\ lastCall.parsed.port = lastCall.port

\* A key with both kinds of hexadecimal digit, a four-field address and the
\* largest port have made the round trip.
C22_Witness ==
    /\ lastCall.op = "FormatParse"
    /\ lastCall.key = KeyOfBytes(10, 171)
    /\ lastCall.ipAddress = <<"1", "9", "2", ".", "1", "6", "8", ".", "1", ".", "2", "0">>
    /\ lastCall.port = 65535
    /\ ~lastCall.parsed.err

----------------------------------------------------------------------------
(* Properties of the routing table (Spec): the replacement rules of Insert *)

\* The bucket-bloat rule of Insert applies to a new key: its bucket entry
\* is empty and some entry holds more than one key.
BloatRuleApplies(t, key) ==
    /\ Len(Bucket(t.kbucket, calculateKBucketKey(t, key).key)) = 0
    /\ BloatedBuckets(t) # {}

\* The smallest last_seen of the stored peers.
OldestLastSeen(t) ==
    CHOOSE s \in {t.peers[i].lastSeen : i \in DOMAIN t.peers} :
        \A i \in DOMAIN t.peers : s <= t.peers[i].lastSeen

\* C23: Insert of a new key into a full table to which the bucket-bloat rule
\* does not apply takes the stored peer with the smallest last_seen as its
\* victim: when now - last_seen > latency_period of that peer it removes
\* it, appends the new peer and returns true, and otherwise returns false.
C23_VictimIsOldest ==
    [][(/\ InsertOfNewKey
        /\ Len(table.peers) = table.maxPeers
        /\ ~BloatRuleApplies(table, lastCall'.key))
       => IF now - OldestLastSeen(table) > table.latencyPeriod
          THEN /\ lastCall'.ok
               /\ Len(table'.peers) = Len(table.peers)
               /\ table'.peers[Len(table'.peers)].key = lastCall'.key
               /\ \E i \in DOMAIN table.peers :
                     /\ table.peers[i].lastSeen = OldestLastSeen(table)
                     /\ table'.peers = Append(Splice(table.peers, i),
                                              table'.peers[Len(table'.peers)])
          ELSE ~lastCall'.ok /\ table'.peers = table.peers]_vars

----------------------------------------------------------------------------
(* Properties of the orders of the peers (SpecSort) *)

\* C24: SortPeersByLastSeen returns a permutation of the stored peers, the
\* most recently seen first (last_seen never increasing along the result),
\* peers of equal last_seen in the order of their insertion.
C24_MostRecentFirst ==
    lastCall.op = "SortPeersByLastSeen" =>
        LET sorted == lastCall.peers
        IN  /\ Len(sorted) = Len(table.peers)
            /\ \A i \in DOMAIN table.peers : \E j \in DOMAIN sorted : sorted[j] = table.peers[i]
            /\ \A i, j \in DOMAIN sorted :
                  i < j => /\ sorted[i].lastSeen >= sorted[j].lastSeen
                           /\ sorted[i].lastSeen = sorted[j].lastSeen
                                => IndexOfKey(table.peers, sorted[i].key)
                                     < IndexOfKey(table.peers, sorted[j].key)

\* The keys of the buckets that hold more than one key.
BloatedKeys(t) ==
    UNION {{t.kbucket[b][i] : i \in DOMAIN t.kbucket[b]} : b \in BloatedBuckets(t)}

\* C25: when the table is full, the new key's bucket is empty and a bucket
\* holds more than one key, Insert returns true, takes exactly one peer
\* out, a peer of a bucket that held more than one key, and stores the new
\* peer, whatever the last_seen of the peers: the table stays full.
C25_BloatedBucketGivesWay ==
    [][(/\ InsertOfNewKey
        /\ Len(table.peers) = table.maxPeers
        /\ BloatRuleApplies(table, lastCall'.key))
       => /\ lastCall'.ok /\ ~lastCall'.err
          /\ Len(table'.peers) = table.maxPeers
          /\ \E i \in DOMAIN table.peers :
                /\ table.peers[i].key \in BloatedKeys(table)
                /\ table'.peers = Append(Splice(table.peers, i),
                                         NewPeer(lastCall'.key, lastCall'.ipAddress,
                                                 lastCall'.port, now))]_vars

\* An Insert into a full table has taken a peer out at time 0, when no peer
\* is old enough for the last-seen replacement.
C25_Witness ==
    /\ lastCall.op = "Insert" /\ lastCall.ok
    /\ lastCall.removed # {}
    /\ now = 0
    /\ Len(table.peers) = table.maxPeers
    /\ table.peers[Len(table.peers)].key = lastCall.key

\* An Insert that falls under the bucket-bloat rule.
BloatCase ==
    /\ InsertOfNewKey
    /\ Len(table.peers) = table.maxPeers
    /\ BloatRuleApplies(table, lastCall'.key)

\* C26 as stated: in the bucket-bloat case the peer removed is the least
\* recently added key of its bucket's list, the first of the list.
C26_AsStated ==
    [][BloatCase =>
        \E b \in BloatedBuckets(table) : lastCall'.removed = {table.kbucket[b][1]}]_vars

\* C26, amended: in the bucket-bloat case the peer removed is the tail of
\* the chosen bucket's list, the key most recently added to that bucket, and
\* the keys added to the bucket before it stay.
C26_TailOfBucketRemoved ==
    [][BloatCase =>
        \E b \in BloatedBuckets(table) :
            /\ lastCall'.removed = {table.kbucket[b][Len(table.kbucket[b])]}
            /\ table'.kbucket[b] = SubSeq(table.kbucket[b], 1, Len(table.kbucket[b]) - 1)]_vars

\* Keys 7 and then 6 went into one bucket, and an Insert at time 0 into the
\* full table has taken 6 out and left 7.
C26_Witness ==
    /\ lastCall.op = "Insert" /\ lastCall.ok
    /\ lastCall.removed = {6}
    /\ now = 0
    /\ 7 \in PeerKeys(table)
    /\ lastCall.key \in PeerKeys(table)

\* C27: Insert of a key that is already stored returns true, sets the
\* record's address and port to the arguments and its last_seen to now, and
\* leaves the number and the order of the peers, every other record and the
\* side index as they were, also when the table is full.
C27_UpdateInPlace ==
    [][(/\ lastCall = NoCall /\ lastCall'.op = "Insert"
        /\ lastCall'.key \in PeerKeys(table))
       => /\ lastCall'.ok /\ ~lastCall'.err
          /\ table'.kbucket = table.kbucket
          /\ Len(table'.peers) = Len(table.peers)
          /\ \A i \in DOMAIN table.peers :
                table'.peers[i] =
                    IF table.peers[i].key = lastCall'.key
                    THEN NewPeer(lastCall'.key, lastCall'.ipAddress, lastCall'.port, now)
                    ELSE table.peers[i]]_vars

\* The first peer of a full table has been inserted again, later and from
\* another address than the one it was stored with.
C27_Witness ==
    /\ lastCall.op = "Insert" /\ lastCall.ok
    /\ Len(table.peers) = table.maxPeers /\ table.maxPeers = 2
    /\ table.peers[1].key = lastCall.key
    /\ table.peers[1].lastSeen = now
    /\ table.peers[2].lastSeen < now
    /\ table.peers[1].ipAddress = lastCall.ipAddress
    /\ table.peers[1].ipAddress # table.peers[2].ipAddress

\* The sequence that has every element of seq but the i-th, in their order.
Without(seq, i) == [j \in 1..(Len(seq) - 1) |-> IF j < i THEN seq[j] ELSE seq[j + 1]]

\* C28: Remove of a stored key takes the key out of the peers sequence and
\* out of its bucket's list and leaves the other peers, their order and the
\* other bucket lists as they were; Remove of a key that is not stored
\* returns an error and changes nothing.
C28_RemoveFrame ==
    [][(lastCall = NoCall /\ lastCall'.op = "Remove")
       => IF lastCall'.key \in PeerKeys(table)
          THEN /\ ~lastCall'.err
               /\ table'.peers = Without(table.peers, IndexOfKey(table.peers, lastCall'.key))
               /\ DOMAIN table'.kbucket = DOMAIN table.kbucket
               /\ \A b \in DOMAIN table.kbucket :
                     LET i == IndexInBucket(table.kbucket[b], lastCall'.key)
                     IN  table'.kbucket[b] =
                            IF i # 0 THEN Without(table.kbucket[b], i) ELSE table.kbucket[b]
               /\ Listings(table', lastCall'.key) = 0
          ELSE lastCall'.err /\ table' = table]_vars

\* Key 7 has been removed from a bucket it shared with key 6, which stays.
C28_Witness ==
    /\ lastCall.op = "Remove" /\ ~lastCall.err
    /\ lastCall.key = 7
    /\ lastCall.removed = {7}
    /\ \E b \in DOMAIN table.kbucket : table.kbucket[b] = <<6>>
    /\ 6 \in PeerKeys(table)

----------------------------------------------------------------------------
(* Properties of the RPC exchange (SpecNet): the order of inbound handling *)

\* This step serves a whole, validly signed request on connection c.
ServedSigned(c) == Served(c) /\ GenuineSignature(conns[c].req)

\* C29: the body is decoded before the remote peer is inserted, so that a
\* validly signed request whose body does not decode is answered with
\* success=false and no routing table is changed by serving it.
C29_DecodeBeforeInsert ==
    [][\A c \in DOMAIN conns :
        (ServedSigned(c) /\ conns[c].req.body.json = "garbage")
            => /\ conns'[c].resp.body.success = FALSE
               /\ tables' = tables]_vars

\* The peer of the request on c as HandleRPCConnection would record it with
\* the given port.
Requester(c, port) ==
    NewPeer(PeerKeyOf(conns[c].req.pub), conns[c].srcIP, port, now)

\* The server of c can store the requester: it has its key or has room.
CanStore(c) ==
    LET t == tables[conns[c].server]
    IN  /\ PeerKeyOf(conns[c].req.pub) # t.locusKey
        /\ \/ PeerKeyOf(conns[c].req.pub) \in PeerKeys(t)
           \/ Len(t.peers) < t.maxPeers

Stored(t, peer) == \E i \in DOMAIN t.peers : t.peers[i] = peer

\* C30 as stated: for every validly signed request the server attempts the
\* insert, and the record carries the source address and the source port of
\* the accepted connection.
C30_AsStated ==
    [][\A c \in DOMAIN conns :
        (ServedSigned(c) /\ CanStore(c))
            => Stored(tables'[conns[c].server], Requester(c, conns[c].srcPort))]_vars

\* C30, amended: the record carries the source address of the connection
\* and the listening port the request states in its first eight bytes, and
\* the insert is attempted only when the server could connect to that
\* address and port; otherwise serving the request changes no table.
C30_RecordsAdvertisedPort ==
    [][\A c \in DOMAIN conns :
        ServedSigned(c)
            => IF \E id \in Identities :
                    IPOf(id) = conns[c].srcIP /\ PortOf(id) = conns[c].req.port
               THEN CanStore(c)
                      => Stored(tables'[conns[c].server], Requester(c, conns[c].req.port))
               ELSE tables' = tables]_vars

\* A has served a validly signed request of M and holds M under M's
\* listening port, which is not the port M's connection came from.
C30_Witness ==
    \E c \in DOMAIN conns :
        /\ conns[c].client = "M" /\ conns[c].server = "A"
        /\ conns[c].sstage = "responded"
        /\ GenuineSignature(conns[c].req)
        /\ conns[c].req.port # conns[c].srcPort
        /\ \E i \in DOMAIN tables["A"].peers :
              /\ tables["A"].peers[i].key = PeerKeyOf("M")
              /\ tables["A"].peers[i].ipAddress = conns[c].srcIP
              /\ tables["A"].peers[i].port = conns[c].req.port

----------------------------------------------------------------------------
(* Properties of the routing table (Spec): the frame of a refused Insert *)

\* The keys of the bucket entries of either table.
BucketKeysOf(t1, t2) == DOMAIN t1.kbucket \cup DOMAIN t2.kbucket

\* C40: whenever Insert returns false the peers (keys, addresses, last-seen
\* times, order) and the key list of every bucket are after the call what
\* they were before it, a bucket without an entry counting as an empty one.
C40_RefusedInsertKeepsTable ==
    [][(lastCall = NoCall /\ lastCall'.op = "Insert" /\ ~lastCall'.ok) =>
          /\ table'.peers = table.peers
          /\ \A b \in BucketKeysOf(table, table') :
                Bucket(table'.kbucket, b) = Bucket(table.kbucket, b)]_vars

\* A key other than the locus key was refused by a full table, and the call
\* left an empty entry for its bucket.
C40_Witness ==
    /\ lastCall.op = "Insert"
    /\ ~lastCall.ok
    /\ ~lastCall.err
    /\ lastCall.key # table.locusKey
    /\ Len(table.peers) = table.maxPeers
    /\ LET bk == calculateKBucketKey(table, lastCall.key)
       IN  /\ bk.key \in DOMAIN table.kbucket
           /\ table.kbucket[bk.key] = <<>>

----------------------------------------------------------------------------
(* Properties of the FIND_NODE handler (SpecSort) *)

\* The addresses a successful FIND_NODE answer lists.
Listed == lastCall.res.data.list

\* C33: for a target of the key length the FIND_NODE handler returns the
\* node address of every stored peer, each exactly once, in an order in which
\* key XOR target never decreases, and leaves the routing table as it was.
C33_FindNodeListsAllByDistance ==
    [][(lastCall.op = "none" /\ lastCall'.op = "FindNodeHandler"
            /\ lastCall'.key # BadLenKey) =>
          LET res == lastCall'.res
              listed == res.data.list
          IN  /\ ~res.err
              /\ res.data.kind = "list"
              /\ Len(listed) = Len(table.peers)
              /\ \A i \in DOMAIN table.peers :
                    \E j \in DOMAIN listed :
                        listed[j] = Address(table.peers[i].key, table.peers[i].ipAddress,
                                            table.peers[i].port)
              /\ \A i, j \in DOMAIN listed :
                    i < j => XORBytes(listed[i].key, lastCall'.key)
                                <= XORBytes(listed[j].key, lastCall'.key)
              /\ table' = table]_vars

\* The handler answered for a table of three peers, and the first address of
\* its answer is that of the peer stored last.
C33_Witness ==
    /\ lastCall.op = "FindNodeHandler"
    /\ lastCall.key # BadLenKey
    /\ Len(table.peers) = 3
    /\ Len(Listed) = 3
    /\ Listed[1].key = table.peers[3].key

----------------------------------------------------------------------------
(* Properties of the lookup (SpecLookup): the batches of FindNode requests *)

\* This step starts the goroutines of a batch.
BatchStarts == task.pc = "top" /\ task'.pc = "query"

\* This step is the FindNode request of the goroutine of index i.
QueryOf(i) == task.pc = "query" /\ i \in task.pending /\ i \notin task'.pending

\* C34: in every iteration of FindClosestNodes at most concurrentRequests
\* FindNode requests are made, each to another peer of the current set of
\* live peers, and no peer of that set left without a request is closer to
\* the target than one that got a request.
C34_BatchIsClosestAlpha ==
    [][/\ BatchStarts =>
            /\ Cardinality(task'.pending) <= task.concurrentRequests
            /\ task'.pending \subseteq DOMAIN task'.current
       /\ \A i \in 1 .. LookupMaxPeers + 1 :
            QueryOf(i) =>
                /\ i <= task.concurrentRequests
                /\ i \in DOMAIN task.current
                /\ KeysOf(task.current) \subseteq task.answered
                /\ \A j \in DOMAIN task.current :
                      j > MinOf(task.concurrentRequests, Len(task.current))
                          => Distance(task.current[i]) <= Distance(task.current[j])]_vars

\* A batch is through in which the current set had more peers than
\* concurrentRequests.
C34_Witness ==
    /\ task.pc = "query"
    /\ task.pending = {}
    /\ Len(task.current) > task.concurrentRequests

\* The host of a peer key.
HostOfKey(key) == CHOOSE h \in LookupHosts : PeerKeyOf(h) = key

NoTwoOfAKey(peers) ==
    \A i, j \in DOMAIN peers : peers[i].key = peers[j].key => i = j

\* C36: the answers of a batch are gone through one at a time, whatever the
\* order in which they arrive: no key is twice in prevLookUpRes or in newRes,
\* no key is in both, and the list FindClosestNodes returns has no two peers
\* of the same key.
C36_NoKeyTwice ==
    /\ NoTwoOfAKey(task.prev)
    /\ NoTwoOfAKey(task.newRes)
    /\ KeysOf(task.prev) \cap KeysOf(task.newRes) = {}
    /\ NoTwoOfAKey(task.result)

\* Two nodes of one batch have answered, both of them holding the key of a
\* peer the batch took up as new.
C36_Witness ==
    /\ task.pc = "query"
    /\ task.pending = {}
    /\ task.concurrentRequests >= 2
    /\ Len(task.current) >= 2
    /\ Len(task.newRes) >= 1
    /\ \A i \in 1 .. 2 :
          LET h == HostOfKey(task.current[i].key)
          IN  /\ h \notin task.down
              /\ task.newRes[1].key \in PeerKeys(task.start[h])

\* C37: the list FindClosestNodes returns never holds a peer of the calling
\* host's own key, whatever addresses the nodes asked have answered with.
C37_ResultWithoutCaller ==
    task.pc = "done" => PeerKeyOf(Caller) \notin KeysOf(task.result)

----------------------------------------------------------------------------
(* Properties of SendMessage on a malformed address (SpecAddr) *)

\* C35: SendMessage called with a text that is no node address returns an
\* error to its caller: the calling goroutine goes on, no connection is
\* opened and the routing table is as it was.
C35_MalformedAddressReturnsError ==
    (lastCall.op = "SendMessage" /\ lastCall.parsed.err) =>
        /\ lastCall.result.status = "error"
        /\ conns = <<>>
        /\ table = <<>>

----------------------------------------------------------------------------
(* Properties of the latency-prune service (SpecPrune) *)

\* The peer the service's range loop is at.
PrunedPeer == task.prune.peers[task.prune.i]

\* This step is the age test of the loop, and it sends the peer to Remove.
PruneDecides == task.prune.pc = "scan" /\ task'.prune.pc = "remove"

\* This step is the age test of the loop, and it goes on to the next peer.
PruneKeeps ==
    /\ task.prune.pc = "scan"
    /\ task'.prune.pc = "scan"
    /\ task'.prune.i = task.prune.i + 1

\* C31: in each pass the latency-prune service removes the stored peers
\* with now - last_seen > latency_period and only those: a peer with
\* now - last_seen <= latency_period, equality included, is kept.
C31_PrunesOnlyOlderThanLatency ==
    [][/\ PruneDecides => now - LastSeen(PrunedPeer) > table.latencyPeriod
       /\ PruneKeeps => now - LastSeen(PrunedPeer) <= table.latencyPeriod]_vars

\* The stored record of key in the table.
StoredPeer(key) == table.peers[IndexOfKey(table.peers, key)]

\* This step is the service's call of Remove, and it takes its peer out.
PruneRemoves ==
    /\ task.prune.pc = "remove"
    /\ task'.prune.pc = "scan"
    /\ PrunedPeer.key \in PeerKeys(table)
    /\ PrunedPeer.key \notin PeerKeys(table')

\* C38: the latency-prune service never removes a peer whose last_seen at
\* the moment of the removal has now - last_seen < latency_period, an
\* exchange that refreshes the peer between the age test and the call of
\* Remove included.
C38_RemovedPeerIsStale ==
    [][PruneRemoves =>
          now - StoredPeer(PrunedPeer.key).lastSeen >= table.latencyPeriod]_vars

----------------------------------------------------------------------------
(* Properties of the ping service and of the two services together (SpecServices) *)

\* The peer the ping service's range loop is at.
PingedPeer == task.ping.peers[task.ping.i]

\* This step ends a call of host.Ping.
PingEnds == task.ping.pc = "wait" /\ task'.ping.pc # "wait"

\* C32: in each pass the ping service sends a PING to the stored peers with
\* now - last_seen >= ping_period and to no other; a PING that fails leaves
\* the routing table as it was and the pass goes on with the next peer; a
\* PING that succeeds leaves the peer stored with last_seen = now.
C32_PingServicePass ==
    [][/\ (task.ping.pc = "scan" /\ task'.ping.pc = "wait")
            => now - LastSeen(PingedPeer) >= task.pingPeriod
       /\ (task.ping.pc = "scan" /\ task'.ping.pc = "scan"
                /\ task'.ping.i = task.ping.i + 1)
            => now - LastSeen(PingedPeer) < task.pingPeriod
       /\ (PingEnds /\ ~lastCall'.ok)
            => /\ table' = table
               /\ task'.ping.pc = "scan"
               /\ task'.ping.i = task.ping.i + 1
       /\ (PingEnds /\ lastCall'.ok)
            => \E i \in DOMAIN table'.peers :
                  /\ table'.peers[i].key = PingedPeer.key
                  /\ table'.peers[i].lastSeen = now]_vars

\* C39: with ping_period < latency_period a stored peer that answers every
\* PING the host sends to it is never removed from the routing table by the
\* latency-prune service.
C39_AnsweringPeerNeverPruned ==
    [][~(/\ PruneRemoves
         /\ PrunedPeer.key = PeerKeyOf(AnsweringPeer)
         /\ task.pingPeriod < table.latencyPeriod)]_vars

=============================================================================
